---- MODULE Spec2Model ----
(***************************************************************************)
(* Model of the backup archive engine: ScanPath, Filter/ApplyFilter,       *)
(* PackWithOptions (header, encryptWriter, flate stage, writeEntry) and    *)
(* UnpackWithOptions (readHeaderWithFlags, decryptReader, readEntry and    *)
(* the restore functions).                                                 *)
(*                                                                         *)
(* Strings are sequences of one-character strings, so that Join, Clean,    *)
(* Rel, Base, HasPrefix and glob matching are computed on characters.      *)
(* A byte stream is a sequence of items; one item stands for one           *)
(* fixed-width field, one character of a string or one content byte.       *)
(***************************************************************************)
EXTENDS Integers, Sequences, FiniteSets, TLC

(***************************************************************************)
(* Bounds of the model.                                                    *)
(***************************************************************************)
MaxObjs == 3        \* objects below the scan root in a source tree
MaxSpecial == 2     \* of these, objects that are no file and no directory
MaxRecs == 3        \* records of a hand-built archive
MaxFilterEntries == 2   \* entries of a list handed to ApplyFilter

(***************************************************************************)
(* Generic sequence helpers.                                               *)
(***************************************************************************)
RECURSIVE Flatten(_)
Flatten(ss) == IF ss = <<>> THEN <<>> ELSE Head(ss) \o Flatten(Tail(ss))

IsPrefix(p, s) == Len(p) <= Len(s) /\ SubSeq(s, 1, Len(p)) = p

Drop(s, n) == SubSeq(s, n + 1, Len(s))

Take(s, n) == SubSeq(s, 1, n)

Min(a, b) == IF a <= b THEN a ELSE b

Range(s) == {s[i] : i \in 1..Len(s)}

(***************************************************************************)
(* path/filepath and strings on character sequences.                       *)
(***************************************************************************)
Sep == "/"

\* strings.Split(s, "/"): the components of s, empty components included.
RECURSIVE SplitFrom(_, _)
SplitFrom(s, cur) ==
    IF s = <<>> THEN <<cur>>
    ELSE IF Head(s) = Sep THEN <<cur>> \o SplitFrom(Tail(s), <<>>)
    ELSE SplitFrom(Tail(s), Append(cur, Head(s)))

Split(s) == SplitFrom(s, <<>>)

\* strings.Join(comps, "/")
RECURSIVE JoinComps(_)
JoinComps(cs) ==
    IF cs = <<>> THEN <<>>
    ELSE IF Len(cs) = 1 THEN cs[1]
    ELSE cs[1] \o <<Sep>> \o JoinComps(Tail(cs))

DotDot == <<".", ".">>
Dot == <<".">>

\* The component stack of filepath.Clean: "" and "." are dropped, ".." pops
\* a name, is dropped at the root of a rooted path and is kept otherwise.
RECURSIVE CleanStack(_, _, _)
CleanStack(cs, out, rooted) ==
    IF cs = <<>> THEN out
    ELSE LET c == Head(cs) IN
         IF c = <<>> \/ c = Dot THEN CleanStack(Tail(cs), out, rooted)
         ELSE IF c = DotDot THEN
              IF out # <<>> /\ out[Len(out)] # DotDot
                  THEN CleanStack(Tail(cs), Take(out, Len(out) - 1), rooted)
              ELSE IF rooted THEN CleanStack(Tail(cs), out, rooted)
              ELSE CleanStack(Tail(cs), Append(out, c), rooted)
         ELSE CleanStack(Tail(cs), Append(out, c), rooted)

IsAbs(s) == s # <<>> /\ s[1] = Sep

\* filepath.Clean
Clean(s) ==
    LET rooted == IsAbs(s)
        st == CleanStack(Split(s), <<>>, rooted)
    IN  IF rooted THEN <<Sep>> \o JoinComps(st)
        ELSE IF st = <<>> THEN Dot
        ELSE JoinComps(st)

\* filepath.Join(a, b): empty elements are ignored, the result is cleaned.
Join(a, b) ==
    IF a = <<>> /\ b = <<>> THEN <<>>
    ELSE IF a = <<>> THEN Clean(b)
    ELSE IF b = <<>> THEN Clean(a)
    ELSE Clean(a \o <<Sep>> \o b)

\* The components of a clean absolute path ("/" has none).
AbsComps(p) == CleanStack(Split(p), <<>>, TRUE)

RECURSIVE CommonLen(_, _)
CommonLen(a, b) ==
    IF a = <<>> \/ b = <<>> THEN 0
    ELSE IF Head(a) = Head(b) THEN 1 + CommonLen(Tail(a), Tail(b))
    ELSE 0

\* filepath.Rel(base, targ) for two absolute paths: "." when they are equal,
\* else one ".." per remaining component of base, then the rest of targ.
Rel(base, targ) ==
    LET b == AbsComps(base)
        t == AbsComps(targ)
        k == CommonLen(b, t)
        ups == [i \in 1..(Len(b) - k) |-> DotDot]
        rest == ups \o Drop(t, k)
    IN  IF rest = <<>> THEN Dot ELSE JoinComps(rest)

\* filepath.Base: the last element, trailing separators removed; "." for
\* the empty path and "/" for a path of separators only.
Base(s) ==
    IF s = <<>> THEN Dot
    ELSE LET cs == SelectSeq(Split(s), LAMBDA c : c # <<>>)
         IN  IF cs = <<>> THEN <<Sep>> ELSE cs[Len(cs)]

\* filepath.Dir of a clean absolute path.
Dir(p) ==
    LET cs == AbsComps(p)
    IN  IF Len(cs) <= 1 THEN <<Sep>>
        ELSE <<Sep>> \o JoinComps(Take(cs, Len(cs) - 1))

\* strings.HasPrefix
HasPrefix(s, prefix) == IsPrefix(prefix, s)

\* strings.Contains
Contains(s, sub) ==
    \E i \in 0..(Len(s) - Len(sub)) : SubSeq(s, i + 1, i + Len(sub)) = sub

\* strings.Replace(s, old, "", 1): the first occurrence of old is removed.
RemoveFirst(s, old) ==
    IF ~Contains(s, old) THEN s
    ELSE LET i == CHOOSE i \in 0..(Len(s) - Len(old)) :
                      /\ SubSeq(s, i + 1, i + Len(old)) = old
                      /\ \A j \in 0..(i - 1) : SubSeq(s, j + 1, j + Len(old)) # old
         IN  Take(s, i) \o Drop(s, i + Len(old))

\* filepath.Match for patterns of literals, "?" and "*": neither wildcard
\* matches the separator.  A pattern with an unclosed "[" is malformed and
\* Match reports no match.
RECURSIVE GlobMatch(_, _)
GlobMatch(p, s) ==
    IF p = <<>> THEN s = <<>>
    ELSE IF Head(p) = "*" THEN
            \/ GlobMatch(Tail(p), s)
            \/ s # <<>> /\ Head(s) # Sep /\ GlobMatch(p, Tail(s))
    ELSE IF Head(p) = "?" THEN
            s # <<>> /\ Head(s) # Sep /\ GlobMatch(Tail(p), Tail(s))
    ELSE s # <<>> /\ Head(s) = Head(p) /\ GlobMatch(Tail(p), Tail(s))

Match(pattern, name) ==
    IF \E i \in 1..Len(pattern) : pattern[i] = "[" THEN FALSE
    ELSE GlobMatch(pattern, name)


(***************************************************************************)
(* Entry model (FileType, FileEntry) and the source filesystem.            *)
(***************************************************************************)
TypeFile == "TypeFile"
TypeDir == "TypeDir"
TypeSymlink == "TypeSymlink"
TypeHardlink == "TypeHardlink"
TypeFifo == "TypeFifo"
TypeCharDevice == "TypeCharDevice"
TypeBlockDevice == "TypeBlockDevice"
TypeSocket == "TypeSocket"

FileTypes == {TypeFile, TypeDir, TypeSymlink, TypeHardlink, TypeFifo,
              TypeCharDevice, TypeBlockDevice, TypeSocket}

\* os.FileMode type bits of an object, as a set of flag names.
ModeDir == "ModeDir"
ModeSymlink == "ModeSymlink"
ModeNamedPipe == "ModeNamedPipe"
ModeSocket == "ModeSocket"
ModeDevice == "ModeDevice"
ModeCharDevice == "ModeCharDevice"

\* The absolute path of the scan root and of the restore target.
SrcRoot == <<"/", "s">>
RestoreRoot == <<"/", "t">>

\* One object of the source filesystem as Lstat reports it; rel is its path
\* relative to the scan root.
Obj(rel, flags, perm, content, dev, ino, nlink, rdev, mtime, target) ==
    [rel |-> rel, flags |-> flags, perm |-> perm, size |-> Len(content),
     content |-> content, dev |-> dev, ino |-> ino, nlink |-> nlink,
     rdev |-> rdev, uid |-> 1000, gid |-> 1000, mtime |-> mtime,
     atime |-> mtime + 1, ctime |-> mtime + 2, target |-> target]

\* The scan root as a directory: like every directory it has a link count
\* above one, and its inode number is one a regular file also carries.
RootDirObj == Obj(Dot, {ModeDir}, 493, <<>>, 1, 1, 2, 0, 4, <<>>)

\* The scan root as a single regular file (empty or not).
RootFileObjs ==
    { Obj(Dot, {}, 420, c, 1, 1, 1, 0, 4, <<>>) : c \in {<<>>, <<1, 2>>} }

\* The objects a source tree is built from, in the lexical order WalkDir
\* visits them.  "a" lives on another device than "b" and "c" and carries
\* the same inode number; "b" and "c" are two names of one file.
Catalogue ==
    << Obj(<<"a">>, {}, 420, <<3>>, 2, 1, 2, 0, 5, <<>>),
       Obj(<<"b">>, {}, 384, <<1, 2>>, 1, 1, 2, 0, 6, <<>>),
       Obj(<<"c">>, {}, 384, <<1, 2>>, 1, 1, 2, 0, 6, <<>>),
       Obj(<<"d">>, {ModeDir}, 493, <<>>, 1, 1, 2, 0, 7, <<>>),
       Obj(<<"d", "/", "e">>, {}, 420, <<>>, 1, 2, 1, 0, 8, <<>>),
       Obj(<<"f">>, {ModeNamedPipe}, 420, <<>>, 1, 3, 1, 0, 5, <<>>),
       Obj(<<"k">>, {ModeSocket}, 493, <<>>, 1, 4, 1, 0, 5, <<>>),
       Obj(<<"l">>, {ModeSymlink}, 511, <<>>, 1, 5, 1, 0, 5, <<"b">>),
       Obj(<<"n">>, {ModeDevice, ModeCharDevice}, 420, <<>>, 1, 6, 1, 259, 5, <<>>),
       Obj(<<"o">>, {ModeDevice}, 432, <<>>, 1, 7, 1, 1050624, 5, <<>>) >>

RECURSIVE PickObjs(_, _)
PickObjs(S, i) ==
    IF i > Len(Catalogue) THEN <<>>
    ELSE (IF i \in S THEN <<Catalogue[i]>> ELSE <<>>) \o PickObjs(S, i + 1)

\* "d/e" needs its parent directory "d".
ParentClosed(S) == 5 \in S => 4 \in S

IsSpecial(o) == o.flags # {} /\ o.flags # {ModeDir}

\* The source trees: the root directory and up to MaxObjs catalogue objects.
DirTrees ==
    { <<RootDirObj>> \o PickObjs(S, 1) :
        S \in {T \in SUBSET (1..Len(Catalogue)) :
                  /\ Cardinality(T) <= MaxObjs
                  /\ Cardinality({i \in T : IsSpecial(Catalogue[i])}) <= MaxSpecial
                  /\ ParentClosed(T)} }

FileTrees == { <<o>> : o \in RootFileObjs }

(***************************************************************************)
(* Filesystem Scanner: createFileEntry and ScanPath.                       *)
(***************************************************************************)
\* The kind switch of createFileEntry: the first true case wins.
KindOfMode(flags) ==
    IF ModeDir \in flags THEN TypeDir
    ELSE IF ModeSymlink \in flags THEN TypeSymlink
    ELSE IF ModeNamedPipe \in flags THEN TypeFifo
    ELSE IF ModeSocket \in flags THEN TypeSocket
    ELSE IF ModeCharDevice \in flags THEN TypeCharDevice
    ELSE IF ModeDevice \in flags THEN TypeBlockDevice
    ELSE TypeFile

createFileEntry(relPath, info) ==
    [RelPath |-> relPath,
     Type |-> KindOfMode(info.flags),
     Mode |-> [flags |-> info.flags, perm |-> info.perm],
     Size |-> info.size,
     ModTime |-> info.mtime, AccessTime |-> info.atime,
     ChangeTime |-> info.ctime,
     UID |-> info.uid, GID |-> info.gid,
     LinkTarget |-> IF ModeSymlink \in info.flags /\ ModeDir \notin info.flags
                    THEN info.target ELSE <<>>,
     LinkName |-> <<>>,
     DevMajor |-> IF ModeDevice \in info.flags THEN info.rdev \div 256 ELSE 0,
     DevMinor |-> IF ModeDevice \in info.flags THEN info.rdev % 256 ELSE 0]

\* The key under which ScanPath remembers the first path of a file.
HardlinkKey(info) == info.ino

\* The hard-link check of the callback on the entry e0 made for info: a
\* regular file with more than one link whose key is in the map becomes a
\* hard link to the path remembered there.  hmap maps a key to the
\* absolute path first seen with it.
MarkHardlink(e0, info, hmap) ==
    IF info.nlink > 1 /\ e0.Type = TypeFile /\ HardlinkKey(info) \in DOMAIN hmap
    THEN [e0 EXCEPT !.Type = TypeHardlink,
                    !.LinkName = Rel(SrcRoot, hmap[HardlinkKey(info)])]
    ELSE e0

\* The map the check leaves: the first path of a key is remembered.
RememberFirst(e0, info, hmap, path) ==
    IF info.nlink > 1 /\ e0.Type = TypeFile /\ HardlinkKey(info) \notin DOMAIN hmap
    THEN (HardlinkKey(info) :> path) @@ hmap
    ELSE hmap

\* The path of a directory other than the root gets a trailing "/".
DirSlash(e1) ==
    IF e1.Type = TypeDir /\ e1.RelPath # Dot /\ e1.RelPath[Len(e1.RelPath)] # Sep
    THEN [e1 EXCEPT !.RelPath = e1.RelPath \o <<Sep>>]
    ELSE e1

\* The callback from the entry createFileEntry made on.
WalkEntry(e0, info, hmap, path) ==
    [entry |-> DirSlash(MarkHardlink(e0, info, hmap)),
     hmap |-> RememberFirst(e0, info, hmap, path)]

\* The callback on an absolute path.
WalkPath(path, info, hmap) ==
    WalkEntry(createFileEntry(Rel(SrcRoot, path), info), info, hmap, path)

\* One call of the WalkDir callback: the entry it appends and the map it
\* leaves.
WalkStep(info, hmap) == WalkPath(Join(SrcRoot, info.rel), info, hmap)

RECURSIVE WalkFrom(_, _, _)
\* The walk after the callback returned r for tree[i].
WalkNext(tree, i, r) == <<r.entry>> \o WalkFrom(tree, i + 1, r.hmap)

WalkFrom(tree, i, hmap) ==
    IF i > Len(tree) THEN <<>>
    ELSE WalkNext(tree, i, WalkStep(tree[i], hmap))

\* ScanPath(root): a root that is not a directory gives one entry named by
\* its base name; a directory is walked in lexical order.
ScanPath(tree) ==
    IF ModeDir \notin tree[1].flags
    THEN <<createFileEntry(Base(SrcRoot), tree[1])>>
    ELSE WalkFrom(tree, 1, <<>>)


(***************************************************************************)
(* Filter Engine: Filter.Match and ApplyFilter.                            *)
(***************************************************************************)
\* A Go pointer: Nil, or Some(v) pointing at v.
Nil == <<>>

Some(v) == <<v>>

Val(ptr) == ptr[1]

StarStar == <<"*", "*">>

\* One include or exclude pattern against a relative path: filepath.Match,
\* or, for a pattern that contains "**", HasPrefix of the path with the
\* pattern from which the first "**" is removed.
PathPatternMatches(pattern, relPath) ==
    \/ Match(pattern, relPath)
    \/ /\ Contains(pattern, StarStar)
       /\ HasPrefix(relPath, RemoveFirst(pattern, StarStar))

\* The size check made for entries of every type.
SizeRejectsAnyType(f, entry) ==
    \/ f.MinSize # Nil /\ entry.Size < Val(f.MinSize)
    \/ f.MaxSize # Nil /\ entry.Size > Val(f.MaxSize)

\* The size check with exclusive bounds.
SizeRejectsExclusive(f, entry) ==
    /\ entry.Type = TypeFile
    /\ \/ f.MinSize # Nil /\ entry.Size <= Val(f.MinSize)
       \/ f.MaxSize # Nil /\ entry.Size >= Val(f.MaxSize)

\* The size check of Filter.Match: it is made for TypeFile entries only.
SizeRejects(f, entry) ==
    /\ entry.Type = TypeFile
    /\ \/ f.MinSize # Nil /\ entry.Size < Val(f.MinSize)
       \/ f.MaxSize # Nil /\ entry.Size > Val(f.MaxSize)

\* Filter.Match returning true as soon as a configured kind matches.
FilterMatchKindFirst(f, entry) ==
    IF \E i \in 1..Len(f.IncludeTypes) : entry.Type = f.IncludeTypes[i]
    THEN TRUE
    ELSE /\ f.IncludeTypes = <<>>
         /\ ~SizeRejects(f, entry)
         /\ f.MinModTime # Nil => entry.ModTime >= Val(f.MinModTime)
         /\ f.MaxModTime # Nil => entry.ModTime <= Val(f.MaxModTime)
         /\ \A i \in 1..Len(f.ExcludePaths) :
               ~PathPatternMatches(f.ExcludePaths[i], entry.RelPath)
         /\ f.PathPatterns # <<>>
            => \E i \in 1..Len(f.PathPatterns) :
                  PathPatternMatches(f.PathPatterns[i], entry.RelPath)
         /\ f.NamePatterns # <<>>
            => \E i \in 1..Len(f.NamePatterns) :
                  Match(f.NamePatterns[i], Base(entry.RelPath))

\* Filter.Match: each configured category may reject, in the code's order.
FilterMatch(f, entry) ==
    IF /\ Len(f.PathPatterns) > 0
       /\ ~\E i \in 1..Len(f.PathPatterns) :
              PathPatternMatches(f.PathPatterns[i], entry.RelPath)
    THEN FALSE
    ELSE IF /\ Len(f.ExcludePaths) > 0
            /\ \E i \in 1..Len(f.ExcludePaths) :
                  PathPatternMatches(f.ExcludePaths[i], entry.RelPath)
    THEN FALSE
    ELSE IF /\ Len(f.IncludeTypes) > 0
            /\ ~\E i \in 1..Len(f.IncludeTypes) : entry.Type = f.IncludeTypes[i]
    THEN FALSE
    ELSE IF /\ Len(f.NamePatterns) > 0
            /\ ~\E i \in 1..Len(f.NamePatterns) :
                  Match(f.NamePatterns[i], Base(entry.RelPath))
    THEN FALSE
    ELSE IF f.MinModTime # Nil /\ entry.ModTime < Val(f.MinModTime) THEN FALSE
    ELSE IF f.MaxModTime # Nil /\ entry.ModTime > Val(f.MaxModTime) THEN FALSE
    ELSE IF SizeRejects(f, entry) THEN FALSE
    ELSE TRUE

\* The loop of ApplyFilter: matching entries are appended in input order.
RECURSIVE FilterLoop(_, _)
FilterLoop(entries, filter) ==
    IF entries = <<>> THEN <<>>
    ELSE (IF FilterMatch(filter, Head(entries)) THEN <<Head(entries)>> ELSE <<>>)
         \o FilterLoop(Tail(entries), filter)

ApplyFilter(entries, filter) ==
    IF filter = Nil THEN entries ELSE FilterLoop(entries, Val(filter))

\* A filter with nothing configured.
EmptyFilter ==
    [PathPatterns |-> <<>>, ExcludePaths |-> <<>>, IncludeTypes |-> <<>>,
     NamePatterns |-> <<>>, MinModTime |-> Nil, MaxModTime |-> Nil,
     MinSize |-> Nil, MaxSize |-> Nil]


(***************************************************************************)
(* Container Codec, write side: writeHeaderWithFlags, writeEntry,          *)
(* writeEndMarker.  Num is a fixed-width number, Chr one character of a    *)
(* string, and a content byte is a Num.                                    *)
(***************************************************************************)
Num(v) == [k |-> "num", v |-> v]
Chr(c) == [k |-> "chr", v |-> c]

Chars(str) == [i \in 1..Len(str) |-> Chr(str[i])]

magicNumber == <<"B", "K", "U", "P">>
formatVersion == 2
flagCompress == 1
flagEncrypt == 2

entryTypeEnd == 0
entryTypeFile == 1
entryTypeDir == 2
entryTypeSymlink == 3
entryTypeHardlink == 4
entryTypeFifo == 5
entryTypeCharDev == 6
entryTypeBlockDev == 7

\* int32(x) of a Go int.  Every uid and gid of the model lies in the int32
\* range, where the conversion keeps the value.
ToInt32(x) == x

ReservedLen == 7

\* writeHeaderWithFlags: magic, version, the flags byte, 7 reserved bytes.
writeHeaderWithFlags(compress, encrypt) ==
    Chars(magicNumber)
    \o <<Num(formatVersion)>>
    \o <<Num((IF compress THEN flagCompress ELSE 0)
             + (IF encrypt THEN flagEncrypt ELSE 0))>>
    \o [i \in 1..ReservedLen |-> Num(0)]

\* The tag writeEntry gives a FileType; a socket has none.
EntryTag(type) ==
    CASE type = TypeFile -> entryTypeFile
      [] type = TypeDir -> entryTypeDir
      [] type = TypeSymlink -> entryTypeSymlink
      [] type = TypeHardlink -> entryTypeHardlink
      [] type = TypeFifo -> entryTypeFifo
      [] type = TypeCharDevice -> entryTypeCharDev
      [] type = TypeBlockDevice -> entryTypeBlockDev
      [] OTHER -> -1

\* Tag, length-prefixed path and the fixed metadata block of a record.
RecordHead(tag, entry) ==
    <<Num(tag), Num(Len(entry.RelPath))>> \o Chars(entry.RelPath)
    \o <<Num(entry.Mode), Num(entry.ModTime), Num(entry.AccessTime),
         Num(entry.ChangeTime), Num(ToInt32(entry.UID)),
         Num(ToInt32(entry.GID))>>

\* The file os.Open finds at an absolute source path: the object of the
\* tree with that path, when it is a regular file.
SrcFileAt(tree, abspath) ==
    {o \in Range(tree) : Join(SrcRoot, o.rel) = abspath /\ o.flags = {}}

\* The path writeEntry opens to read the content of a TypeFile entry.
SrcPathOf(entry) == Join(SrcRoot, entry.RelPath)

\* The content of a TypeFile entry of positive size: found is what os.Open
\* finds at the source path.  A file that cannot be opened fails after the
\* size was written.
writeContent(head, entry, found) ==
    IF found = {} THEN [err |-> TRUE, out |-> head \o <<Num(entry.Size)>>]
    ELSE LET o == CHOOSE o \in found : TRUE IN
         IF Len(o.content) < entry.Size
         THEN [err |-> TRUE,
               out |-> head \o <<Num(entry.Size)>>
                       \o [i \in 1..Len(o.content) |-> Num(o.content[i])]]
         ELSE [err |-> FALSE,
               out |-> head \o <<Num(entry.Size)>>
                       \o [i \in 1..entry.Size |-> Num(o.content[i])]]

\* The fields of the kind after the head of the record.
writeKind(head, entry, tree) ==
    CASE entry.Type = TypeFile ->
           IF entry.Size > 0
           THEN writeContent(head, entry, SrcFileAt(tree, SrcPathOf(entry)))
           ELSE [err |-> FALSE, out |-> head \o <<Num(entry.Size)>>]
      [] entry.Type = TypeSymlink ->
           [err |-> FALSE,
            out |-> head \o <<Num(Len(entry.LinkTarget))>> \o Chars(entry.LinkTarget)]
      [] entry.Type = TypeHardlink ->
           [err |-> FALSE,
            out |-> head \o <<Num(Len(entry.LinkName))>> \o Chars(entry.LinkName)]
      [] entry.Type \in {TypeCharDevice, TypeBlockDevice} ->
           [err |-> FALSE,
            out |-> head \o <<Num(entry.DevMajor), Num(entry.DevMinor)>>]
      [] OTHER -> [err |-> FALSE, out |-> head]

\* writeEntry with the socket handled as a named pipe is: it gets a record.
writeEntrySocketRecord(entry, tree) ==
    writeKind(RecordHead(IF entry.Type = TypeSocket THEN entryTypeFifo
                         ELSE EntryTag(entry.Type), entry),
              entry, tree)

\* writeEntry: the items it writes and whether it failed.  A socket writes
\* nothing.
writeEntry(entry, tree) ==
    IF entry.Type = TypeSocket THEN [err |-> FALSE, out |-> <<>>]
    ELSE writeKind(RecordHead(EntryTag(entry.Type), entry), entry, tree)

writeEndMarker == <<Num(entryTypeEnd)>>

(***************************************************************************)
(* Streaming Transform Layer, write side.  The sizes are scaled to items:  *)
(* a chunk holds blockSize plaintext items, a nonce is NonceSize items and *)
(* the authentication tag Overhead items.                                  *)
(***************************************************************************)
blockSize == 8
NonceSize == 1
Overhead == 1

\* rand.Read: the random source is an input of the model.  Its k-th draw is
\* k when the period is 0 (all draws differ) and repeats with the period
\* otherwise.
RandPeriods == {0, 2}

Draw(period, k) == IF period = 0 THEN k ELSE ((k - 1) % period) + 1

\* sha256.Sum256 of the passphrase.
KeyOf(password) == <<"sha256", password>>

NonceItem(n) == [k |-> "nonce", v |-> n]

\* gcm.Seal(nil, nonce, chunk, nil): the ciphertext of each plaintext item
\* and the tag, all bound to the key, the nonce and the chunk.
Seal(key, n, chunk) ==
    [i \in 1..(Len(chunk) + Overhead) |->
        [k |-> "ct", key |-> key, nonce |-> n, len |-> Len(chunk), i |-> i,
         p |-> IF i <= Len(chunk) THEN chunk[i] ELSE Num(0)]]

\* The loop of encryptWriter.Write with the nonce drawn before the loop:
\* the full chunks of one Write are sealed under one nonce.
EncDrainOneNonce(buf, key, period, drawn) ==
    IF Len(buf) >= blockSize
    THEN [out |-> Flatten([i \in 1..(Len(buf) \div blockSize) |->
                     <<NonceItem(Draw(period, drawn + 1))>>
                     \o Seal(key, Draw(period, drawn + 1),
                             SubSeq(buf, (i - 1) * blockSize + 1, i * blockSize))]),
          buf |-> Drop(buf, (Len(buf) \div blockSize) * blockSize),
          drawn |-> drawn + 1]
    ELSE [out |-> <<>>, buf |-> buf, drawn |-> drawn]

\* The loop of encryptWriter.Write: while the buffer holds a full chunk,
\* the chunk leaves it sealed under a newly drawn nonce.  drawn counts the
\* draws made so far.  Returns what reaches the file, the rest of the
\* buffer and the new count.
RECURSIVE EncDrain(_, _, _, _)
EncDrain(buf, key, period, drawn) ==
    IF Len(buf) >= blockSize
    THEN LET n == Draw(period, drawn + 1)
             r == EncDrain(Drop(buf, blockSize), key, period, drawn + 1)
         IN  [out |-> <<NonceItem(n)>> \o Seal(key, n, Take(buf, blockSize))
                      \o r.out,
              buf |-> r.buf, drawn |-> r.drawn]
    ELSE [out |-> <<>>, buf |-> buf, drawn |-> drawn]

\* An encryptWriter.Write that seals what it has at every call.
encryptWriterWriteEach(buf, p, key, period, drawn) ==
    IF buf \o p = <<>> THEN [out |-> <<>>, buf |-> <<>>, drawn |-> drawn]
    ELSE [out |-> <<NonceItem(Draw(period, drawn + 1))>>
                  \o Seal(key, Draw(period, drawn + 1), buf \o p),
          buf |-> <<>>, drawn |-> drawn + 1]

encryptWriterWrite(buf, p, key, period, drawn) ==
    EncDrain(buf \o p, key, period, drawn)

\* encryptWriter.Close: a non-empty buffer is sealed as the last chunk.
encryptWriterClose(buf, key, period, drawn) ==
    IF Len(buf) > 0
    THEN LET n == Draw(period, drawn + 1)
         IN  [out |-> <<NonceItem(n)>> \o Seal(key, n, buf), buf |-> <<>>,
              drawn |-> drawn + 1]
    ELSE [out |-> <<>>, buf |-> buf, drawn |-> drawn]

\* The compression stage.  The flate writer keeps its input until it has a
\* block of flateBlock items and passes blocks on; Close passes on the rest
\* and the final-block marker.
flateBlock == 6

ZItem(x) == [k |-> "z", p |-> x]
ZEnd == [k |-> "zend"]

Deflate(items) == [i \in 1..Len(items) |-> ZItem(items[i])]

flateWrite(zb, p) ==
    LET all == zb \o p
        n == (Len(all) \div flateBlock) * flateBlock
    IN  [out |-> Deflate(Take(all, n)), buf |-> Drop(all, n)]

flateClose(zb) == [out |-> Deflate(zb) \o <<ZEnd>>, buf |-> <<>>]


\* The writer chain as PackWithOptions builds it: finalWriter starts as the
\* file, is wrapped by the encryptWriter when Encrypt is set and then by the
\* flate writer when Compress is set.  The first stage is the outermost.
WrapEncrypt(chain) == <<"encrypt">> \o chain

WrapFlate(chain) == <<"flate">> \o chain

BuildWriteChain(compress, encrypt) ==
    LET c1 == IF encrypt THEN WrapEncrypt(<<>>) ELSE <<>>
    IN  IF compress THEN WrapFlate(c1) ELSE c1

\* Write(p) on a chain.  w holds the file, the buffers of the stages, the
\* period of the random source and the number of draws made.
RECURSIVE ChainWrite(_, _, _, _)
ChainWrite(w, p, chain, key) ==
    IF chain = <<>> THEN [w EXCEPT !.file = @ \o p]
    ELSE IF Head(chain) = "flate"
         THEN LET z == flateWrite(w.zbuf, p)
              IN  ChainWrite([w EXCEPT !.zbuf = z.buf], z.out, Tail(chain), key)
         ELSE LET e == encryptWriterWrite(w.ebuf, p, key, w.period, w.drawn)
              IN  ChainWrite([w EXCEPT !.ebuf = e.buf, !.drawn = e.drawn],
                             e.out, Tail(chain), key)

\* A deferred call that removes what was written when pack returns.
DeferredRollback(w, chain, key) == [w EXCEPT !.file = <<>>]

\* The deferred flateWriter.Close(): it runs when PackWithOptions returns,
\* and what it flushes goes to the writer below the flate stage.
DeferredFlateClose(w, chain, key) ==
    IF chain # <<>> /\ Head(chain) = "flate"
    THEN LET z == flateClose(w.zbuf)
         IN  ChainWrite([w EXCEPT !.zbuf = z.buf], z.out, Tail(chain), key)
    ELSE w

\* The explicit encWriter.Close() at the end of PackWithOptions.
EncWriterClose(w, chain, key) ==
    IF "encrypt" \in Range(chain)
    THEN LET e == encryptWriterClose(w.ebuf, key, w.period, w.drawn)
         IN  [w EXCEPT !.ebuf = e.buf, !.drawn = e.drawn, !.file = @ \o e.out]
    ELSE w

\* The end of a successful PackWithOptions after the end marker: the
\* encryptWriter is closed, then the deferred calls run.
CloseWriters(w, chain, key) ==
    DeferredFlateClose(EncWriterClose(w, chain, key), chain, key)

(***************************************************************************)
(* State.                                                                  *)
(***************************************************************************)
VARIABLES
    tree,       \* the source filesystem below the scan root, in walk order
    filter,     \* the filter handed to pack (Nil for none)
    opts,       \* PackOptions of pack: Compress, Encrypt, Password
    entries,    \* pack: the entries that survive the filter
    pidx,       \* pack: index of the next entry to write
    ws,         \* pack: the archive file and the buffers of the stages
    wchain,     \* pack: the writer chain, outermost stage first
    plain,      \* pack: the items the codec handed to finalWriter so far
    pstate,     \* pack: "start", "writing", "ok" or "err"; "crafted" or "idle"
                \* where no pack runs
    perr,       \* pack: the error returned ("" for none)
    uopts,      \* PackOptions of unpack: Password
    priv,       \* unpack runs with the privilege to chown and mknod
    rchain,     \* unpack: the reader chain, the stage next to the file first
    ustream,    \* unpack: the stream finalReader delivers, and how it ends
    upos,       \* unpack: items of ustream consumed
    tfs,        \* the target filesystem: absolute path -> object
    ulog,       \* unpack: what each handled record did
    ustate,     \* unpack: "idle", "reading", "ok" or "err"
    uerr,       \* unpack: the error returned ("" for none)
    fentries,   \* ApplyFilter: the input list
    ffilter,    \* ApplyFilter: the filter
    fresult,    \* ApplyFilter: the list returned
    fstate,     \* ApplyFilter: "idle" or "done"
    crafted     \* the records of an archive that pack did not write

vars == <<tree, filter, opts, entries, pidx, ws, wchain, plain, pstate, perr,
          uopts, priv, rchain, ustream, upos, tfs, ulog, ustate, uerr,
          fentries, ffilter, fresult, fstate, crafted>>

packVars == <<entries, pidx, ws, wchain, plain, pstate, perr>>
unpackVars == <<uopts, priv, rchain, ustream, upos, tfs, ulog, ustate, uerr>>
filterVars == <<fentries, ffilter, fresult, fstate>>
inputVars == <<tree, filter, opts, crafted>>

Passwords == {<<>>, <<"p">>}
UnpackPasswords == {<<>>, <<"p">>, <<"q">>}

\* The filters pack is run with.
PackFilters ==
    {Nil,
     Some([EmptyFilter EXCEPT !.ExcludePaths = << <<"b">> >>])}

(***************************************************************************)
(* Archiver: PackWithOptions, one action per stretch of the function.      *)
(***************************************************************************)
\* The passphrase check of PackWithOptions.
PackNeedsPassphrase(options) == options.Encrypt /\ options.Password = <<>>

\* Scan, filter, create the file, write the header, set up the stages.
PackOpen ==
    /\ pstate = "start"
    /\ \E scanned \in {ScanPath(tree)},
          hdr \in {writeHeaderWithFlags(opts.Compress, opts.Encrypt)} :
           /\ entries' = IF filter # Nil THEN ApplyFilter(scanned, filter)
                         ELSE scanned
           /\ pidx' = 1
           /\ plain' = <<>>
           /\ IF PackNeedsPassphrase(opts)
              THEN /\ ws' = [ws EXCEPT !.file = hdr]
                   /\ wchain' = <<>>
                   /\ pstate' = "err"
                   /\ perr' = "NoPassphrase"
              ELSE /\ ws' = IF opts.Encrypt
                            THEN [ws EXCEPT
                                    !.file = hdr \o <<NonceItem(Draw(ws.period, 1))>>,
                                    !.drawn = 1]
                            ELSE [ws EXCEPT !.file = hdr]
                   /\ wchain' = BuildWriteChain(opts.Compress, opts.Encrypt)
                   /\ pstate' = "writing"
                   /\ perr' = ""
    /\ UNCHANGED <<inputVars, unpackVars, filterVars>>

\* One turn of the loop over entries: writeEntry(finalWriter, entry, absRoot).
\* On an error the function returns and its deferred calls run.
PackWriteEntry ==
    /\ pstate = "writing"
    /\ pidx <= Len(entries)
    /\ \E r \in {writeEntry(entries[pidx], tree)} :
       \E w1 \in {ChainWrite(ws, r.out, wchain, KeyOf(opts.Password))} :
           /\ plain' = plain \o r.out
           /\ IF r.err
              THEN /\ ws' = DeferredFlateClose(w1, wchain, KeyOf(opts.Password))
                   /\ pstate' = "err"
                   /\ perr' = "WriteEntry"
                   /\ pidx' = pidx
              ELSE /\ ws' = w1
                   /\ pidx' = pidx + 1
                   /\ UNCHANGED <<pstate, perr>>
    /\ UNCHANGED <<entries, wchain, inputVars, unpackVars, filterVars>>

\* After the loop: the end marker, encWriter.Close(), return nil, and the
\* deferred flateWriter.Close() and outFile.Close().
PackFinish ==
    /\ pstate = "writing"
    /\ pidx > Len(entries)
    /\ LET key == KeyOf(opts.Password)
       IN  ws' = CloseWriters(ChainWrite(ws, writeEndMarker, wchain, key),
                              wchain, key)
    /\ plain' = plain \o writeEndMarker
    /\ pstate' = "ok"
    /\ UNCHANGED <<entries, pidx, wchain, perr, inputVars, unpackVars, filterVars>>


(***************************************************************************)
(* Streaming Transform Layer, read side.  A stream is the items a reader   *)
(* delivers and the error it returns once they are consumed.               *)
(***************************************************************************)
ErrEOF == "EOF"
ErrUnexpectedEOF == "ErrUnexpectedEOF"

\* An Open that does not depend on the key.
OpenAnyKey(key, blockNonce, ct) ==
    /\ Len(ct) >= Overhead
    /\ \A j \in 1..Len(blockNonce) : blockNonce[j].k = "nonce"
    /\ \A i \in 1..Len(ct) :
          /\ ct[i].k = "ct"
          /\ <<NonceItem(ct[i].nonce)>> = blockNonce
          /\ ct[i].len = Len(ct) - Overhead

\* gcm.Open(nil, blockNonce, ciphertext, nil) authenticates: the items are
\* one whole sealed chunk, under this key and this nonce.
OpenOK(key, blockNonce, ct) ==
    /\ Len(ct) >= Overhead
    /\ \A j \in 1..Len(blockNonce) : blockNonce[j].k = "nonce"
    /\ \A i \in 1..Len(ct) :
          /\ ct[i].k = "ct"
          /\ ct[i].key = key
          /\ <<NonceItem(ct[i].nonce)>> = blockNonce
          /\ ct[i].len = Len(ct) - Overhead
          /\ ct[i].i = i

OpenPlain(ct) == [i \in 1..(Len(ct) - Overhead) |-> ct[i].p]

\* decryptReader.Read, called until it returns an error: each call reads a
\* nonce and up to blockSize+Overhead items of ciphertext and opens them.
RECURSIVE decryptReaderRead(_, _)
decryptReaderRead(body, key) ==
    IF body = <<>> THEN [data |-> <<>>, err |-> ErrEOF]
    ELSE IF Len(body) < NonceSize THEN [data |-> <<>>, err |-> "ReadNonce"]
    ELSE LET blockNonce == Take(body, NonceSize)
             rest == Drop(body, NonceSize)
             ct == Take(rest, Min(Len(rest), blockSize + Overhead))
         IN  IF rest = <<>> THEN [data |-> <<>>, err |-> ErrEOF]
             ELSE IF Len(ct) < Overhead THEN [data |-> <<>>, err |-> ErrEOF]
             ELSE IF ~OpenOK(key, blockNonce, ct)
                  THEN [data |-> <<>>, err |-> "DecryptFailed"]
             ELSE LET r == decryptReaderRead(Drop(rest, Len(ct)), key)
                  IN  [data |-> OpenPlain(ct) \o r.data, err |-> r.err]

\* The number of compressed items at the head of data.
ZRun(data) ==
    LET stops == {i \in 1..Len(data) : data[i].k # "z"}
    IN  IF stops = {} THEN Len(data)
        ELSE (CHOOSE i \in stops : \A j \in stops : i <= j) - 1

\* The flate reader over a stream: it inflates up to the final-block
\* marker; a source that ends before it is an unexpected EOF, and another
\* error of the source is passed on.
InflateRun(data, srcErr, n) ==
    [data |-> [i \in 1..n |-> data[i].p],
     err |-> IF n = Len(data)
             THEN (IF srcErr = ErrEOF THEN ErrUnexpectedEOF ELSE srcErr)
             ELSE IF data[n + 1].k = "zend" THEN ErrEOF ELSE "CorruptInput"]

Inflate(data, srcErr) == InflateRun(data, srcErr, ZRun(data))

\* The reader chain as UnpackWithOptions builds it from the header flags:
\* finalReader starts as the file, is wrapped by the decryptReader when the
\* encryption flag is set and then by the flate reader when the compression
\* flag is set.  The first stage is the one next to the file.
AddDecrypt(chain) == chain \o <<"decrypt">>

AddInflate(chain) == chain \o <<"inflate">>

\* The read stages in the order of the write stages.
BuildReadChainWriteOrder(compress, encrypt) ==
    LET c1 == IF compress THEN AddInflate(<<>>) ELSE <<>>
    IN  IF encrypt THEN AddDecrypt(c1) ELSE c1

\* finalReader: the decrypting reader on the file, then the inflating
\* reader on top of it.
BuildReadChain(compress, encrypt) ==
    LET c1 == IF encrypt THEN AddDecrypt(<<>>) ELSE <<>>
    IN  IF compress THEN AddInflate(c1) ELSE c1

\* What finalReader delivers for the body of the file.
RECURSIVE ChainRead(_, _, _)
ChainRead(st, chain, key) ==
    IF chain = <<>> THEN st
    ELSE IF Head(chain) = "decrypt"
         THEN ChainRead(decryptReaderRead(st.data, key), Tail(chain), key)
         ELSE ChainRead(Inflate(st.data, st.err), Tail(chain), key)

(***************************************************************************)
(* Container Codec, read side: readHeaderWithFlags, readEntryType,         *)
(* readEntry.                                                              *)
(***************************************************************************)
\* io.ReadFull / binary.Read of n items at pos: nothing left gives the end
\* error of the stream, a short read turns EOF into an unexpected EOF.
ReadErr(st, pos) ==
    IF pos >= Len(st.data) THEN st.err
    ELSE IF st.err = ErrEOF THEN ErrUnexpectedEOF ELSE st.err

CanRead(st, pos, n) == pos + n <= Len(st.data)

ItemsAt(st, pos, n) == SubSeq(st.data, pos + 1, pos + n)

IsNum(it) == it.k = "num"

\* A header reader that takes the flags byte of a version 1 header too.
readHeaderFlagsAnyVersion(file) ==
    LET st == [data |-> file, err |-> ErrEOF]
        bad(e) == [err |-> e, compress |-> FALSE, encrypt |-> FALSE, pos |-> 0]
    IN  IF ~CanRead(st, 0, 4) THEN bad("HeaderRead")
        ELSE IF ItemsAt(st, 0, 4) # Chars(magicNumber) THEN bad("BadMagic")
        ELSE IF ~CanRead(st, 4, 1) THEN bad("HeaderRead")
        ELSE IF ~IsNum(st.data[5]) \/ st.data[5].v < 1
                \/ st.data[5].v > formatVersion
             THEN bad("BadVersion")
        ELSE IF ~CanRead(st, 5, 1 + ReservedLen) THEN bad("HeaderRead")
        ELSE [err |-> "",
              compress |-> (st.data[6].v % 2) = 1,
              encrypt |-> ((st.data[6].v \div 2) % 2) = 1,
              pos |-> 6 + ReservedLen]

\* readHeaderWithFlags on the file.
readHeaderWithFlags(file) ==
    LET st == [data |-> file, err |-> ErrEOF]
        bad(e) == [err |-> e, compress |-> FALSE, encrypt |-> FALSE, pos |-> 0]
    IN  IF ~CanRead(st, 0, 4) THEN bad("HeaderRead")
        ELSE IF ItemsAt(st, 0, 4) # Chars(magicNumber) THEN bad("BadMagic")
        ELSE IF ~CanRead(st, 4, 1) THEN bad("HeaderRead")
        ELSE LET version == st.data[5] IN
             IF ~IsNum(version) \/ version.v < 1 \/ version.v > formatVersion
             THEN bad("BadVersion")
             ELSE IF version.v >= 2
                  THEN IF ~CanRead(st, 5, 1) THEN bad("HeaderRead")
                       ELSE IF ~CanRead(st, 6, ReservedLen) THEN bad("HeaderRead")
                       ELSE LET flags == st.data[6].v IN
                            [err |-> "",
                             compress |-> (flags % 2) = 1,
                             encrypt |-> ((flags \div 2) % 2) = 1,
                             pos |-> 6 + ReservedLen]
                  ELSE IF ~CanRead(st, 5, 8) THEN bad("HeaderRead")
                       ELSE [err |-> "", compress |-> FALSE, encrypt |-> FALSE,
                             pos |-> 13]

Values(items) == [i \in 1..Len(items) |-> items[i].v]

\* A length-prefixed string at pos.
ReadString(st, pos) ==
    IF ~CanRead(st, pos, 1) THEN [err |-> ReadErr(st, pos), str |-> <<>>, pos |-> pos]
    ELSE LET n == st.data[pos + 1].v IN
         IF ~CanRead(st, pos + 1, n)
         THEN [err |-> ReadErr(st, pos + 1), str |-> <<>>, pos |-> pos + 1]
         ELSE [err |-> "", str |-> Values(ItemsAt(st, pos + 1, n)), pos |-> pos + 1 + n]

MetaLen == 6

\* An entry with nothing read into it.
NoEntry ==
    [RelPath |-> <<>>, Mode |-> [flags |-> {}, perm |-> 0],
     ModTime |-> 0, AccessTime |-> 0, ChangeTime |-> 0,
     UID |-> 0, GID |-> 0, Size |-> 0, LinkTarget |-> <<>>,
     LinkName |-> <<>>, DevMajor |-> 0, DevMinor |-> 0]

ReadFailed(e, p) == [err |-> e, entry |-> NoEntry, pos |-> p]

\* The link string of a symlink (field LinkTarget) or hard link (LinkName).
readLink(e1, l, field) ==
    IF l.err # "" THEN ReadFailed(l.err, l.pos)
    ELSE [err |-> "", entry |-> [e1 EXCEPT ![field] = l.str], pos |-> l.pos]

\* The fields of the kind, read at p1 into the entry e1.
readKind(st, p1, entryType, e1) ==
    CASE entryType = entryTypeFile ->
           IF ~CanRead(st, p1, 1) THEN ReadFailed(ReadErr(st, p1), p1)
           ELSE [err |-> "", entry |-> [e1 EXCEPT !.Size = st.data[p1 + 1].v],
                 pos |-> p1 + 1]
      [] entryType = entryTypeSymlink ->
           readLink(e1, ReadString(st, p1), "LinkTarget")
      [] entryType = entryTypeHardlink ->
           readLink(e1, ReadString(st, p1), "LinkName")
      [] entryType \in {entryTypeCharDev, entryTypeBlockDev} ->
           IF ~CanRead(st, p1, 2) THEN ReadFailed(ReadErr(st, p1), p1)
           ELSE [err |-> "",
                 entry |-> [e1 EXCEPT !.DevMajor = st.data[p1 + 1].v,
                                      !.DevMinor = st.data[p1 + 2].v],
                 pos |-> p1 + 2]
      [] OTHER -> [err |-> "", entry |-> e1, pos |-> p1]

\* The metadata block m read after the path ps.
readMeta(st, ps, m, entryType) ==
    readKind(st, ps.pos + MetaLen, entryType,
             [NoEntry EXCEPT !.RelPath = ps.str, !.Mode = m[1],
                             !.ModTime = m[2], !.AccessTime = m[3],
                             !.ChangeTime = m[4], !.UID = m[5], !.GID = m[6]])

\* readEntry from the path ps on.
readAfterPath(st, ps, entryType) ==
    IF ps.err # "" THEN ReadFailed(ps.err, ps.pos)
    ELSE IF ~CanRead(st, ps.pos, MetaLen)
         THEN ReadFailed(ReadErr(st, ps.pos), ps.pos)
    ELSE readMeta(st, ps, Values(ItemsAt(st, ps.pos, MetaLen)), entryType)

\* readEntry: the path, the metadata block, then the fields of the kind.
\* pos is the position after the tag.
readEntry(st, pos, entryType) == readAfterPath(st, ReadString(st, pos), entryType)

(***************************************************************************)
(* The target filesystem and the restore functions.  An object has a kind  *)
(* ("file", "dir", "symlink", "fifo", "chardev", "blockdev"), permission   *)
(* bits, an inode (two paths with one inode are hard links of one file),   *)
(* content, a symlink target, a device number, an owner and timestamps.    *)
(***************************************************************************)
ProcUid == 1000     \* owner of what an unprivileged restore creates
Now == 99           \* timestamp of a newly created object

\* The largest inode number in use.
MaxIno(fs) ==
    LET inos == {fs[q].ino : q \in DOMAIN fs}
    IN  IF inos = {} THEN 0 ELSE CHOOSE m \in inos : \A x \in inos : x <= m

NewObj(fs, kind, perm, pr) ==
    [kind |-> kind, perm |-> perm,
     ino |-> MaxIno(fs) + 1,
     content |-> <<>>, target |-> <<>>, rdev |-> 0,
     uid |-> IF pr THEN 0 ELSE ProcUid, gid |-> IF pr THEN 0 ELSE ProcUid,
     atime |-> Now, mtime |-> Now]

Exists(fs, p) == p \in DOMAIN fs

IsDirAt(fs, p) == p = <<Sep>> \/ (Exists(fs, p) /\ fs[p].kind = "dir")

PutObj(fs, p, o) == (p :> o) @@ fs

RemoveObj(fs, p) == [q \in (DOMAIN fs) \ {p} |-> fs[q]]

HasChildren(fs, p) == \E q \in DOMAIN fs : q # p /\ Dir(q) = p

\* os.Remove, its error ignored: a directory that is not empty stays.
osRemove(fs, p) ==
    IF Exists(fs, p) /\ ~(fs[p].kind = "dir" /\ HasChildren(fs, p))
    THEN RemoveObj(fs, p) ELSE fs

\* os.MkdirAll(path, perm): missing directories are created from the top
\* down; an existing object that is no directory is an error.
RECURSIVE MkdirAllFrom(_, _, _, _, _)
MkdirAllFrom(fs, comps, k, perm, pr) ==
    IF k > Len(comps) THEN [err |-> FALSE, fs |-> fs]
    ELSE LET p == <<Sep>> \o JoinComps(Take(comps, k)) IN
         IF Exists(fs, p)
         THEN IF fs[p].kind = "dir" THEN MkdirAllFrom(fs, comps, k + 1, perm, pr)
              ELSE [err |-> TRUE, fs |-> fs]
         ELSE MkdirAllFrom(PutObj(fs, p, NewObj(fs, "dir", perm, pr)),
                           comps, k + 1, perm, pr)

MkdirAll(fs, path, perm, pr) == MkdirAllFrom(fs, AbsComps(path), 1, perm, pr)

\* The path os.Chown and os.Stat reach: a symlink is followed once.
FollowLink(fs, p) ==
    IF Exists(fs, p) /\ fs[p].kind = "symlink"
    THEN IF IsAbs(fs[p].target) THEN Clean(fs[p].target)
         ELSE Join(Dir(p), fs[p].target)
    ELSE p

\* os.Chown on the object q that the path leads to.
ChownAt(fs, q, uid, gid) ==
    IF Exists(fs, q) THEN [fs EXCEPT ![q].uid = uid, ![q].gid = gid] ELSE fs

\* A restoreOwnership that removes the object when chown fails.
restoreOwnershipOrRemove(fs, path, uid, gid, pr) ==
    IF uid > 0 \/ gid > 0
    THEN IF pr THEN ChownAt(fs, FollowLink(fs, path), uid, gid)
         ELSE osRemove(fs, path)
    ELSE fs

\* restoreOwnership: chown is tried only when uid > 0 or gid > 0, and its
\* failure (no privilege) is ignored.
restoreOwnership(fs, path, uid, gid, pr) ==
    IF (uid > 0 \/ gid > 0) /\ pr
    THEN ChownAt(fs, FollowLink(fs, path), uid, gid)
    ELSE fs

\* os.Chtimes on the object q that the path leads to.
ChtimesAt(fs, q, atime, mtime) ==
    IF Exists(fs, q) THEN [fs EXCEPT ![q].atime = atime, ![q].mtime = mtime]
    ELSE fs

\* restoreTimes: atime is AccessTime when positive, else ModTime.
restoreTimes(fs, path, entry) ==
    ChtimesAt(fs, FollowLink(fs, path),
              IF entry.AccessTime > 0 THEN entry.AccessTime ELSE entry.ModTime,
              entry.ModTime)

\* Every path of the inode of p gets the content c.
SetContent(fs, p, c) ==
    [q \in DOMAIN fs |-> IF fs[q].ino = fs[p].ino /\ fs[q].kind = "file"
                         THEN [fs[q] EXCEPT !.content = c] ELSE fs[q]]

ParentPerm == 493   \* 0755

\* io.CopyN of entry.Size items from the stream into the open file f1 at
\* dest, then owner and times.
restoreContent(f1, dest, st, pos, targetPath, entry, pr) ==
    IF entry.Size > 0 /\ Len(st.data) - pos < entry.Size
    THEN [err |-> "WriteContent",
          fs |-> SetContent(f1, dest,
                            Values(ItemsAt(st, pos, Len(st.data) - pos))),
          pos |-> Len(st.data)]
    ELSE LET n == IF entry.Size > 0 THEN entry.Size ELSE 0
         IN  [err |-> "",
              fs |-> restoreTimes(
                         restoreOwnership(
                             SetContent(f1, dest, Values(ItemsAt(st, pos, n))),
                             targetPath, entry.UID, entry.GID, pr),
                         targetPath, entry),
              pos |-> pos + n]

\* os.OpenFile(O_CREATE|O_WRONLY|O_TRUNC) on dest, the file the target path
\* leads to, with the stored mode.
restoreOpen(fs, dest, st, pos, targetPath, entry, pr) ==
    IF \/ Exists(fs, dest) /\ fs[dest].kind # "file"
       \/ ~Exists(fs, dest) /\ ~IsDirAt(fs, Dir(dest))
    THEN [err |-> "CreateFile", fs |-> fs, pos |-> pos]
    ELSE restoreContent(IF Exists(fs, dest) THEN SetContent(fs, dest, <<>>)
                        ELSE PutObj(fs, dest,
                                    NewObj(fs, "file", entry.Mode.perm, pr)),
                        dest, st, pos, targetPath, entry, pr)

\* restoreFile after MkdirAll of the parent returned m.
restoreInto(m, st, pos, targetPath, entry, pr) ==
    IF m.err THEN [err |-> "MkdirParent", fs |-> m.fs, pos |-> pos]
    ELSE restoreOpen(m.fs, FollowLink(m.fs, targetPath), st, pos, targetPath,
                     entry, pr)

\* restoreFile: parent directories, create or truncate with the stored
\* mode, copy Size bytes from the stream, then owner and times.
restoreFile(fs, st, pos, targetPath, entry, pr) ==
    restoreInto(MkdirAll(fs, Dir(targetPath), ParentPerm, pr), st, pos,
                targetPath, entry, pr)

\* restoreDir after MkdirAll returned m.
restoreDirInto(m, targetPath, entry, pr) ==
    IF m.err THEN [err |-> "CreateDir", fs |-> m.fs]
    ELSE [err |-> "",
          fs |-> restoreTimes(restoreOwnership(m.fs, targetPath, entry.UID,
                                               entry.GID, pr),
                              targetPath, entry)]

\* restoreDir: MkdirAll with the stored mode, then owner and times.
restoreDir(fs, targetPath, entry, pr) ==
    restoreDirInto(MkdirAll(fs, targetPath, entry.Mode.perm, pr), targetPath,
                   entry, pr)

\* An object already at the destination is removed.
RemoveExisting(m, targetPath) ==
    IF m.err THEN m ELSE [err |-> FALSE, fs |-> osRemove(m.fs, targetPath)]

\* The common start of the other restore functions: parent directories,
\* then an object already at the destination is removed.
PrepareNode(fs, targetPath, pr) ==
    RemoveExisting(MkdirAll(fs, Dir(targetPath), ParentPerm, pr), targetPath)

SymlinkPerm == 511  \* 0777

\* The new node o is made at the destination prepared in m; failErr is the
\* error when it cannot be made, and allowed tells whether the process may
\* make it.  The owner is restored, the times are not.
MakeNode(m, targetPath, o, failErr, allowed, entry, pr) ==
    IF m.err THEN [err |-> "MkdirParent", fs |-> m.fs]
    ELSE IF Exists(m.fs, targetPath) \/ ~allowed
         THEN [err |-> failErr, fs |-> m.fs]
    ELSE [err |-> "",
          fs |-> restoreOwnership(PutObj(m.fs, targetPath, o), targetPath,
                                  entry.UID, entry.GID, pr)]

\* The node a restore function makes: nothing of fs but its free inode
\* number goes into it.
NodeIn(m, kind, perm, pr) == NewObj(m.fs, kind, perm, pr)

\* restoreSymlink after PrepareNode returned m.
restoreSymlinkAt(m, targetPath, entry, pr) ==
    MakeNode(m, targetPath,
             [NodeIn(m, "symlink", SymlinkPerm, pr) EXCEPT !.target = entry.LinkTarget],
             "Symlink", TRUE, entry, pr)

\* restoreSymlink
restoreSymlink(fs, targetPath, entry, pr) ==
    restoreSymlinkAt(PrepareNode(fs, targetPath, pr), targetPath, entry, pr)

\* restoreFifo after PrepareNode returned m.
restoreFifoAt(m, targetPath, entry, pr) ==
    MakeNode(m, targetPath, NodeIn(m, "fifo", entry.Mode.perm, pr),
             "Mkfifo", TRUE, entry, pr)

\* restoreFifo
restoreFifo(fs, targetPath, entry, pr) ==
    restoreFifoAt(PrepareNode(fs, targetPath, pr), targetPath, entry, pr)

RECURSIVE BitOr(_, _)
BitOr(a, b) ==
    IF a = 0 THEN b
    ELSE IF b = 0 THEN a
    ELSE (IF a % 2 = 1 \/ b % 2 = 1 THEN 1 ELSE 0) + 2 * BitOr(a \div 2, b \div 2)

RECURSIVE BitAnd(_, _)
BitAnd(a, b) ==
    IF a = 0 \/ b = 0 THEN 0
    ELSE (IF a % 2 = 1 /\ b % 2 = 1 THEN 1 ELSE 0) + 2 * BitAnd(a \div 2, b \div 2)

\* A mkdev that keeps twelve bits of the major number, as the kernel's
\* encoding of a real (major, minor) pair does.
mkdevMajor12(major, minor) ==
    BitOr(BitOr(BitAnd(major, 4095) * 256, BitAnd(minor, 255)),
          BitAnd(minor, 1048320) * 4096)

\* mkdev: (major << 8) | (minor & 0xff) | ((minor & 0xfff00) << 12)
mkdev(major, minor) ==
    BitOr(BitOr(major * 256, BitAnd(minor, 255)), BitAnd(minor, 1048320) * 4096)

\* restoreCharDev and restoreBlockDev after PrepareNode returned m: Mknod
\* needs privilege.
restoreDevAt(m, targetPath, entry, kind, pr) ==
    MakeNode(m, targetPath,
             [NodeIn(m, kind, entry.Mode.perm, pr)
                  EXCEPT !.rdev = mkdev(entry.DevMajor, entry.DevMinor)],
             "Mknod", pr, entry, pr)

restoreDev(fs, targetPath, entry, kind, pr) ==
    restoreDevAt(PrepareNode(fs, targetPath, pr), targetPath, entry, kind, pr)

restoreCharDev(fs, targetPath, entry, pr) ==
    restoreDev(fs, targetPath, entry, "chardev", pr)

restoreBlockDev(fs, targetPath, entry, pr) ==
    restoreDev(fs, targetPath, entry, "blockdev", pr)

CopyPerm == 438     \* 0666, the mode os.Create gives

\* io.Copy of src into the file f1 has open at dst.
copyInto(f1, src, dst) == [err |-> FALSE, fs |-> SetContent(f1, dst, f1[src].content)]

\* copyFile(src, dst): the content of src is copied into a new file dst.
copyFile(fs, src, dst, pr) ==
    IF ~Exists(fs, src) \/ fs[src].kind # "file" THEN [err |-> TRUE, fs |-> fs]
    ELSE IF Exists(fs, dst) /\ fs[dst].kind # "file" THEN [err |-> TRUE, fs |-> fs]
    ELSE copyInto(IF Exists(fs, dst) THEN SetContent(fs, dst, <<>>)
                  ELSE PutObj(fs, dst, NewObj(fs, "file", CopyPerm, pr)),
                  src, dst)

\* The end of restoreHardlink when the link failed and copyFile returned c.
linkCopied(c, targetPath, entry, pr) ==
    IF c.err THEN [err |-> "Hardlink", fs |-> c.fs, how |-> "error"]
    ELSE [err |-> "",
          fs |-> restoreOwnership(c.fs, targetPath, entry.UID, entry.GID, pr),
          how |-> "copied"]

\* os.Link(src, targetPath) in f1, where an object at the destination was
\* removed, and the copy when the link fails.
linkOrCopy(f1, src, targetPath, entry, pr, linkOK) ==
    IF linkOK /\ ~Exists(f1, targetPath) /\ Exists(f1, src)
       /\ f1[src].kind # "dir"
    THEN [err |-> "",
          fs |-> restoreOwnership(PutObj(f1, targetPath, f1[src]),
                                  targetPath, entry.UID, entry.GID, pr),
          how |-> "linked"]
    ELSE linkCopied(copyFile(f1, FollowLink(f1, src), targetPath, pr),
                    targetPath, entry, pr)

\* os.Stat(linkTarget): statted is the object the link target leads to.
linkStat(fs, src, statted, targetPath, entry, pr, linkOK) ==
    IF ~Exists(fs, statted)
    THEN [err |-> "", fs |-> fs, how |-> "deferred"]
    ELSE linkOrCopy(osRemove(fs, targetPath), src, targetPath, entry, pr, linkOK)

\* restoreHardlink from the link target src on, after MkdirAll returned m.
linkInto(m, src, targetPath, entry, pr, linkOK) ==
    IF m.err THEN [err |-> "MkdirParent", fs |-> m.fs, how |-> "error"]
    ELSE linkStat(m.fs, src, FollowLink(m.fs, src), targetPath, entry, pr, linkOK)

\* restoreHardlink: a link target that does not exist yet defers the
\* record (nothing is created); else os.Link, and a copy when the link
\* fails (linkOK says whether the filesystem makes the link).  how tells
\* which of these happened.
restoreHardlink(fs, targetPath, entry, pr, linkOK) ==
    linkInto(MkdirAll(fs, Dir(targetPath), ParentPerm, pr),
             Join(RestoreRoot, entry.LinkName), targetPath, entry, pr, linkOK)

(***************************************************************************)
(* Restorer: UnpackWithOptions, one action for the part before the loop    *)
(* and one for each turn of the loop.                                      *)
(***************************************************************************)
NoStream == [data |-> <<>>, err |-> ErrEOF]

\* No passphrase check at all.
UnpackNeverNeedsPassphrase(encrypt, password) == FALSE

\* The passphrase check of UnpackWithOptions: the header declares
\* encryption and options carry no passphrase.
UnpackNeedsPassphrase(encrypt, password) == encrypt /\ password = <<>>

\* Open the archive, read the header, build the reader chain, create the
\* target directory.
UnpackOpen ==
    /\ pstate \in {"ok", "err", "crafted"}
    /\ ustate = "idle"
    /\ \E pw \in UnpackPasswords, pr \in BOOLEAN, h \in {readHeaderWithFlags(ws.file)} :
         LET afterHdr == Drop(ws.file, h.pos)
             fail(e) == /\ ustate' = "err"
                        /\ uerr' = e
                        /\ UNCHANGED <<rchain, ustream, upos, tfs, ulog>>
         IN  /\ uopts' = [Password |-> pw]
             /\ priv' = pr
             /\ IF h.err # "" THEN fail(h.err)
                ELSE IF UnpackNeedsPassphrase(h.encrypt, pw) THEN fail("NoPassphrase")
                ELSE IF h.encrypt /\ Len(afterHdr) < NonceSize THEN fail("ReadNonce")
                ELSE LET body == IF h.encrypt THEN Drop(afterHdr, NonceSize)
                                 ELSE afterHdr
                         chain == BuildReadChain(h.compress, h.encrypt)
                         m == MkdirAll(tfs, RestoreRoot, ParentPerm, pr)
                     IN  /\ rchain' = chain
                         /\ ustream' = ChainRead([data |-> body, err |-> ErrEOF],
                                                 chain, KeyOf(pw))
                         /\ upos' = 0
                         /\ tfs' = m.fs
                         /\ ulog' = <<>>
                         /\ ustate' = "reading"
                         /\ uerr' = ""
    /\ UNCHANGED <<inputVars, packVars, filterVars>>

LogRec(entry, tag, outcome) ==
    [path |-> entry.RelPath, tag |-> tag, outcome |-> outcome,
     linkName |-> entry.LinkName]

\* A check that rejects the parent directory itself only.
EscapesParentOnly(relPath) == relPath = DotDot

\* The path-escape check: the destination relative to the target begins
\* with "..".
Escapes(relPath) == HasPrefix(relPath, DotDot)

How(err) == IF err # "" THEN "error" ELSE "restored"

\* What a restore function that reads nothing from the stream returned.
Restored(r, pos) == [err |-> r.err, fs |-> r.fs, pos |-> pos, how |-> How(r.err)]

\* What restoreFile returned; it moves the stream.
RestoredFile(r) == [err |-> r.err, fs |-> r.fs, pos |-> r.pos, how |-> How(r.err)]

\* What restoreHardlink returned.
RestoredLink(r, pos) == [err |-> r.err, fs |-> r.fs, pos |-> pos, how |-> r.how]

\* The switch on the entry type.
Dispatch(fs, st, pos, tag, targetPath, entry, pr, linkOK) ==
    CASE tag = entryTypeFile ->
           RestoredFile(restoreFile(fs, st, pos, targetPath, entry, pr))
      [] tag = entryTypeDir ->
           Restored(restoreDir(fs, targetPath, entry, pr), pos)
      [] tag = entryTypeSymlink ->
           Restored(restoreSymlink(fs, targetPath, entry, pr), pos)
      [] tag = entryTypeHardlink ->
           RestoredLink(restoreHardlink(fs, targetPath, entry, pr, linkOK), pos)
      [] tag = entryTypeFifo ->
           Restored(restoreFifo(fs, targetPath, entry, pr), pos)
      [] tag = entryTypeCharDev ->
           Restored(restoreCharDev(fs, targetPath, entry, pr), pos)
      [] tag = entryTypeBlockDev ->
           Restored(restoreBlockDev(fs, targetPath, entry, pr), pos)
      [] OTHER -> [err |-> "UnknownType", fs |-> fs, pos |-> pos, how |-> "error"]

\* A readEntryType that reports the end marker when the stream has ended.
readEntryTypeEndAtEOF(st, pos) ==
    IF CanRead(st, pos, 1) THEN [err |-> "", tag |-> st.data[pos + 1].v]
    ELSE IF ReadErr(st, pos) = ErrEOF THEN [err |-> "", tag |-> entryTypeEnd]
    ELSE [err |-> ReadErr(st, pos), tag |-> 0]

\* readEntryType: the tag byte at pos, or the error of the reader.
readEntryType(st, pos) ==
    IF CanRead(st, pos, 1) THEN [err |-> "", tag |-> st.data[pos + 1].v]
    ELSE [err |-> ReadErr(st, pos), tag |-> 0]

\* One turn of the loop: read a tag, stop at the end marker, read the
\* entry, skip ".", check the destination, restore by kind.
UnpackEntry ==
    /\ ustate = "reading"
    /\ LET fail(e) == /\ ustate' = "err"
                      /\ uerr' = e
       IN
       \E t \in {readEntryType(ustream, upos)} :
       IF t.err # ""
       THEN /\ fail(IF t.err = ErrEOF THEN "TruncatedArchive" ELSE t.err)
            /\ UNCHANGED <<upos, tfs, ulog>>
       ELSE \E tag \in {t.tag} :
            IF tag = entryTypeEnd
            THEN /\ ustate' = "ok"
                 /\ upos' = upos + 1
                 /\ UNCHANGED <<uerr, tfs, ulog>>
            ELSE \E r \in {readEntry(ustream, upos + 1, tag)} :
                 IF r.err # ""
                 THEN /\ fail(r.err)
                      /\ upos' = r.pos
                      /\ UNCHANGED <<tfs, ulog>>
                 ELSE IF r.entry.RelPath = Dot
                 THEN /\ upos' = r.pos
                      /\ ulog' = Append(ulog, LogRec(r.entry, tag, "root"))
                      /\ UNCHANGED <<ustate, uerr, tfs>>
                 ELSE \E targetPath \in {Join(RestoreRoot, r.entry.RelPath)} :
                      IF Escapes(Rel(RestoreRoot, targetPath))
                      THEN /\ fail("PathEscape")
                           /\ upos' = r.pos
                           /\ ulog' = Append(ulog, LogRec(r.entry, tag, "escape"))
                           /\ UNCHANGED tfs
                      ELSE \E linkOK \in BOOLEAN :
                           \E d \in {Dispatch(tfs, ustream, r.pos, tag, targetPath,
                                              r.entry, priv, linkOK)} :
                                 /\ tfs' = d.fs
                                 /\ upos' = d.pos
                                 /\ ulog' = Append(ulog,
                                       LogRec(r.entry, tag, d.how))
                                 /\ IF d.err # "" THEN fail(d.err)
                                    ELSE UNCHANGED <<ustate, uerr>>
    /\ UNCHANGED <<uopts, priv, rchain, ustream, inputVars, packVars, filterVars>>

(***************************************************************************)
(* Specification: pack a source tree, then unpack the archive file pack    *)
(* left on disk (also after a failed pack) into a target that does not     *)
(* exist yet.                                                              *)
(***************************************************************************)
IdleUnpack ==
    /\ uopts = [Password |-> <<>>]
    /\ priv = FALSE
    /\ rchain = <<>>
    /\ ustream = NoStream
    /\ upos = 0
    /\ tfs = <<>>
    /\ ulog = <<>>
    /\ ustate = "idle"
    /\ uerr = ""

IdleFilter ==
    /\ fentries = <<>>
    /\ ffilter = Nil
    /\ fresult = <<>>
    /\ fstate = "idle"

IdlePack ==
    /\ entries = <<>>
    /\ pidx = 1
    /\ \E period \in (IF opts.Encrypt THEN RandPeriods ELSE {0}) :
         ws = [file |-> <<>>, ebuf |-> <<>>, zbuf |-> <<>>,
               period |-> period, drawn |-> 0]
    /\ wchain = <<>>
    /\ plain = <<>>
    /\ perr = ""

Init ==
    /\ tree \in DirTrees \cup FileTrees
    /\ filter \in PackFilters
    /\ opts \in [Compress : BOOLEAN, Encrypt : BOOLEAN, Password : Passwords]
    /\ pstate = "start"
    /\ crafted = <<>>
    /\ IdlePack
    /\ IdleUnpack
    /\ IdleFilter

Next ==
    \/ PackOpen
    \/ PackWriteEntry
    \/ PackFinish
    \/ UnpackOpen
    \/ UnpackEntry

Spec == Init /\ [][Next]_vars


(***************************************************************************)
(* Specification of unpack alone: the archive is any file in the container *)
(* format, built here from up to MaxRecs records that no scan would give   *)
(* (paths with parent-directory segments and tags outside the defined      *)
(* values among them), with any combination of the transforms, complete or *)
(* cut after its last record.                                              *)
(***************************************************************************)

\* The records carry an owner that is not the user of the restoring
\* process: os.Chown to it fails without privilege.
CraftEntry(type, relPath, size, linkName) ==
    [RelPath |-> relPath, Type |-> type, Mode |-> [flags |-> {}, perm |-> 420],
     Size |-> size, ModTime |-> 5, AccessTime |-> 6, ChangeTime |-> 7,
     UID |-> ProcUid + 1000, GID |-> ProcUid + 1000, LinkTarget |-> <<>>,
     LinkName |-> linkName, DevMajor |-> 0, DevMinor |-> 0]

\* The entry with the owner root.
CraftRootOwned(entry) == [entry EXCEPT !.UID = 0, !.GID = 0]

\* A record: its tag, the entry and the content bytes that follow it.
CraftRec(entry, content) ==
    [tag |-> EntryTag(entry.Type), entry |-> entry, content |-> content]

\* A record with a tag that is none of the defined values: the path and
\* the metadata block follow the tag as in every record.
CraftUnknown(tag, relPath) ==
    [tag |-> tag, entry |-> CraftEntry(TypeDir, relPath, 0, <<>>), content |-> <<>>]

CraftCatalogue ==
    << CraftRec(CraftEntry(TypeFile, <<"x">>, 1, <<>>), <<7>>),
       CraftRec(CraftEntry(TypeFile, <<".", ".", "/", "x">>, 1, <<>>), <<8>>),
       CraftRec(CraftEntry(TypeDir, <<"d", "/">>, 0, <<>>), <<>>),
       CraftRec(CraftEntry(TypeFile,
                           <<"d", "/", ".", ".", "/", ".", ".", "/", "y">>,
                           0, <<>>), <<>>),
       CraftRec(CraftEntry(TypeFile, <<".", ".", "d">>, 1, <<>>), <<9>>),
       CraftRec(CraftEntry(TypeHardlink, <<"h">>, 0, <<"x">>), <<>>),
       CraftUnknown(8, <<"u">>),
       CraftUnknown(255, Dot) >>

\* The sequences of at most MaxRecs different records.
CraftedSeqs ==
    UNION { { [i \in 1..n |-> CraftCatalogue[f[i]]] :
                f \in { g \in [1..n -> 1..Len(CraftCatalogue)] :
                          \A i, j \in 1..n : i # j => g[i] # g[j] } } :
            n \in 0..MaxRecs }

\* The bytes of a record as the codec lays them out.
CraftRecord(r) ==
    RecordHead(r.tag, r.entry)
    \o (CASE r.tag = entryTypeFile ->
               <<Num(r.entry.Size)>> \o [i \in 1..Len(r.content) |-> Num(r.content[i])]
          [] r.tag = entryTypeSymlink ->
               <<Num(Len(r.entry.LinkTarget))>> \o Chars(r.entry.LinkTarget)
          [] r.tag = entryTypeHardlink ->
               <<Num(Len(r.entry.LinkName))>> \o Chars(r.entry.LinkName)
          [] OTHER -> <<>>)

\* The record stream of a crafted archive: the end marker follows the
\* records unless the archive is cut.
CraftStream(recs, whole) ==
    Flatten([i \in 1..Len(recs) |-> CraftRecord(recs[i])])
    \o (IF whole THEN writeEndMarker ELSE <<>>)

\* The file a writer leaves that sends the stream through the stages and
\* closes them from the outermost to the innermost.
CraftClose(w, chain, key) ==
    EncWriterClose(DeferredFlateClose(w, chain, key), chain, key)

CraftFile(stream, w0, chain, key) ==
    CraftClose(ChainWrite(w0, stream, chain, key), chain, key)

\* The header, and the archive nonce of an encrypted archive.
CraftStart(compress, encrypt) ==
    [file |-> writeHeaderWithFlags(compress, encrypt)
              \o (IF encrypt THEN <<NonceItem(Draw(0, 1))>> ELSE <<>>),
     ebuf |-> <<>>, zbuf |-> <<>>, period |-> 0,
     drawn |-> IF encrypt THEN 1 ELSE 0]

CraftArchive(stream, o) ==
    CraftFile(stream, CraftStart(o.Compress, o.Encrypt),
              BuildWriteChain(o.Compress, o.Encrypt), KeyOf(o.Password))

InitUnpack ==
    /\ crafted \in CraftedSeqs
    /\ tree = <<RootDirObj>>
    /\ filter = Nil
    /\ opts \in [Compress : BOOLEAN, Encrypt : BOOLEAN, Password : {<<"p">>}]
    /\ pstate = "crafted"
    /\ entries = <<>>
    /\ pidx = 1
    /\ \E whole \in BOOLEAN : plain = CraftStream(crafted, whole)
    /\ ws = CraftArchive(plain, opts)
    /\ wchain = <<>>
    /\ perr = ""
    /\ IdleUnpack
    /\ IdleFilter

NextUnpack ==
    \/ UnpackOpen
    \/ UnpackEntry

SpecUnpack == InitUnpack /\ [][NextUnpack]_vars

(***************************************************************************)
(* Specification of unpack into a directory of a filesystem that holds a   *)
(* file of the user outside the target: the archive is built from up to    *)
(* MaxRecs records of a second catalogue (two records for one path, a file *)
(* record with the path ".", a symlink that leaves the target and records  *)
(* that name it, a hard link whose link name leaves the target), without   *)
(* transforms and with its end marker.                                     *)
(***************************************************************************)
HostFile == <<Sep, "s">>

\* The filesystem before unpack: the file outside the target.
HostFs ==
    (HostFile :> [NewObj(<<>>, "file", 384, FALSE) EXCEPT !.content = <<5>>])

\* A symlink record with the raw target.
CraftSymlink(relPath, target) ==
    CraftRec([CraftEntry(TypeSymlink, relPath, 0, <<>>) EXCEPT !.LinkTarget = target],
             <<>>)

HostCatalogue ==
    << CraftRec(CraftEntry(TypeFile, <<"x">>, 1, <<>>), <<7>>),
       CraftRec(CraftRootOwned(CraftEntry(TypeFile, <<"x">>, 0, <<>>)), <<>>),
       CraftRec(CraftEntry(TypeFile, Dot, 1, <<>>), <<entryTypeEnd>>),
       CraftSymlink(<<"l">>, HostFile),
       CraftRec(CraftEntry(TypeFile, <<"l">>, 1, <<>>), <<9>>),
       CraftRec(CraftEntry(TypeHardlink, <<"h">>, 0, <<".", ".", "/", "s">>), <<>>) >>

HostSeqs ==
    UNION { { [i \in 1..n |-> HostCatalogue[f[i]]] :
                f \in { g \in [1..n -> 1..Len(HostCatalogue)] :
                          \A i, j \in 1..n : i # j => g[i] # g[j] } } :
            n \in 0..MaxRecs }

InitHost ==
    /\ crafted \in HostSeqs
    /\ tree = <<RootDirObj>>
    /\ filter = Nil
    /\ opts = [Compress |-> FALSE, Encrypt |-> FALSE, Password |-> <<>>]
    /\ pstate = "crafted"
    /\ entries = <<>>
    /\ pidx = 1
    /\ plain = CraftStream(crafted, TRUE)
    /\ ws = CraftArchive(plain, opts)
    /\ wchain = <<>>
    /\ perr = ""
    /\ uopts = [Password |-> <<>>]
    /\ priv = FALSE
    /\ rchain = <<>>
    /\ ustream = NoStream
    /\ upos = 0
    /\ tfs = HostFs
    /\ ulog = <<>>
    /\ ustate = "idle"
    /\ uerr = ""
    /\ IdleFilter

SpecHost == InitHost /\ [][NextUnpack]_vars

(***************************************************************************)
(* Specification of unpack on an encrypted archive whose chunks were       *)
(* rearranged after pack: the records are directory records of exactly one *)
(* chunk each (empty path, different times), so the file is one full chunk *)
(* per record and a short last chunk with the end marker; two chunks are   *)
(* exchanged, a chunk is repeated, or a chunk is taken out of the middle.  *)
(***************************************************************************)
ChunkRec(mtime) ==
    CraftRec([CraftEntry(TypeDir, <<>>, 0, <<>>) EXCEPT !.ModTime = mtime], <<>>)

ChunkRecs == <<ChunkRec(11), ChunkRec(12), ChunkRec(13)>>

ChunkSeqs ==
    UNION { { [i \in 1..n |-> ChunkRecs[f[i]]] :
                f \in { g \in [1..n -> 1..Len(ChunkRecs)] :
                          \A i, j \in 1..n : i # j => g[i] # g[j] } } :
            n \in 2..MaxRecs }

ChunkOpts == [Compress |-> FALSE, Encrypt |-> TRUE, Password |-> <<"p">>]

\* The items of a full chunk in the file: nonce, ciphertext and tag.
ChunkLen == NonceSize + blockSize + Overhead

\* The header and the archive nonce.
ChunkFileHead == writeHeaderWithFlags(FALSE, TRUE) \o <<NonceItem(Draw(0, 1))>>

\* The chunks of the body of an encrypted file, in file order.
ChunksOf(body) ==
    [k \in 1..((Len(body) + ChunkLen - 1) \div ChunkLen) |->
        SubSeq(body, (k - 1) * ChunkLen + 1, Min(k * ChunkLen, Len(body)))]

Exchanged(cs, i, j) == [cs EXCEPT ![i] = cs[j], ![j] = cs[i]]

Repeated(cs, i) == Take(cs, i) \o Drop(cs, i - 1)

TakenOut(cs, i) == Take(cs, i - 1) \o Drop(cs, i)

\* The chunk sequences made of the chunks cs: cs itself and every exchange
\* of two chunks, repetition of a chunk and removal of a middle chunk.
Rearranged(cs) ==
    {cs}
    \cup { Exchanged(cs, i, j) : i, j \in 1..Len(cs) }
    \cup { Repeated(cs, i) : i \in 1..Len(cs) }
    \cup { TakenOut(cs, i) : i \in 2..(Len(cs) - 1) }

InitChunks ==
    /\ crafted \in ChunkSeqs
    /\ tree = <<RootDirObj>>
    /\ filter = Nil
    /\ opts = ChunkOpts
    /\ pstate = "crafted"
    /\ entries = <<>>
    /\ pidx = 1
    /\ plain = CraftStream(crafted, TRUE)
    /\ \E cs \in Rearranged(ChunksOf(Drop(CraftArchive(plain, opts).file,
                                          Len(ChunkFileHead)))) :
          ws = [CraftArchive(plain, opts) EXCEPT !.file = ChunkFileHead \o Flatten(cs)]
    /\ wchain = <<>>
    /\ perr = ""
    /\ IdleUnpack
    /\ IdleFilter

SpecChunks == InitChunks /\ [][NextUnpack]_vars

(***************************************************************************)
(* Specification of header reading: the archive is the record stream of    *)
(* one file record behind any header of sixteen bytes (magic right or      *)
(* wrong, any version, any flags byte), whole or cut anywhere.             *)
(***************************************************************************)
HeaderMagics == {magicNumber, <<"B", "K", "U", "Q">>}

HeaderVersions == 0..(formatVersion + 1)

HeaderFlags == 0..5

\* A header: the magic, the version, the byte after it and seven more.
HeaderOf(magic, version, flags) ==
    Chars(magic) \o <<Num(version), Num(flags)>> \o [i \in 1..ReservedLen |-> Num(0)]

HeaderRecs == <<CraftCatalogue[1]>>

\* The files: a header and the record stream, whole or cut anywhere.
HeaderFile(magic, version, flags) ==
    HeaderOf(magic, version, flags) \o CraftStream(HeaderRecs, TRUE)

HeaderFiles ==
    { Take(HeaderFile(m, v, f), n) :
        m \in HeaderMagics, v \in HeaderVersions, f \in HeaderFlags,
        n \in 0..Len(HeaderFile(magicNumber, 0, 0)) }

InitHeader ==
    /\ crafted = HeaderRecs
    /\ tree = <<RootDirObj>>
    /\ filter = Nil
    /\ opts = [Compress |-> FALSE, Encrypt |-> FALSE, Password |-> <<>>]
    /\ pstate = "crafted"
    /\ entries = <<>>
    /\ pidx = 1
    /\ plain = CraftStream(crafted, TRUE)
    /\ \E file \in HeaderFiles : ws = [CraftStart(FALSE, FALSE) EXCEPT !.file = file]
    /\ wchain = <<>>
    /\ perr = ""
    /\ IdleUnpack
    /\ IdleFilter

SpecHeader == InitHeader /\ [][NextUnpack]_vars

(***************************************************************************)
(* Specification of unpack on records with a wrong length: the archive is  *)
(* a header, at most one directory record and a last record (a file with  *)
(* or without content, or a hard link) in which the path length, the link  *)
(* length or the file size is replaced by another value, with or without   *)
(* the end marker.                                                         *)
(***************************************************************************)
LengthRecs ==
    {CraftCatalogue[1], CraftCatalogue[6],
     CraftRec(CraftEntry(TypeFile, <<"x">>, 0, <<>>), <<>>)}

LengthPrefixes == {<<>>, <<CraftCatalogue[3]>>}

\* The position of the size or link length in the bytes of a record:
\* after the tag, the path length, the path and the metadata.
KindLenAt(r) == 2 + Len(r.entry.RelPath) + MetaLen + 1

\* The positions of the length fields: the path length follows the tag.
LengthFields(r) == {2, KindLenAt(r)}

\* The bytes of the record with the length at idx replaced by v.
WithLength(r, idx, v) == [CraftRecord(r) EXCEPT ![idx] = Num(v)]

\* The values a length is replaced by: itself, one more than the bytes
\* that follow it when the end marker ends the stream, and, for the signed
\* size of a file, a negative number.
LengthValues(r, idx) ==
    {CraftRecord(r)[idx].v, Len(CraftRecord(r)) + 1 - idx + 1}
    \cup (IF r.tag = entryTypeFile /\ idx = KindLenAt(r) THEN {-1} ELSE {})

LengthChanges(r) ==
    UNION { { <<idx, v>> : v \in LengthValues(r, idx) } : idx \in LengthFields(r) }

\* The stream after the prefix: the changed record, and the end marker
\* when the archive is whole.
LengthTail(r, c, whole) ==
    WithLength(r, c[1], c[2]) \o (IF whole THEN writeEndMarker ELSE <<>>)

LengthTails(r) ==
    { LengthTail(r, c, whole) : c \in LengthChanges(r), whole \in BOOLEAN }

InitLength ==
    /\ \E pre \in LengthPrefixes, r \in LengthRecs :
          /\ crafted = pre \o <<r>>
          /\ \E tail \in LengthTails(r) : plain = CraftStream(pre, FALSE) \o tail
    /\ tree = <<RootDirObj>>
    /\ filter = Nil
    /\ opts = [Compress |-> FALSE, Encrypt |-> FALSE, Password |-> <<>>]
    /\ pstate = "crafted"
    /\ entries = <<>>
    /\ pidx = 1
    /\ ws = [CraftStart(FALSE, FALSE) EXCEPT !.file = @ \o plain]
    /\ wchain = <<>>
    /\ perr = ""
    /\ IdleUnpack
    /\ IdleFilter

SpecLength == InitLength /\ [][NextUnpack]_vars

(***************************************************************************)
(* Specification of the filter alone: ApplyFilter on any list of up to     *)
(* MaxFilterEntries scanned entries and any filter of FilterChoices.       *)
(***************************************************************************)
\* Entries of a scan of the whole catalogue, one or two of each kind a
\* record is written for: the files "a" and "d/e", the hard link "b", the
\* directory "d/", the named pipe "f", the symlink "l" and the device "n".
FilterEntryPool ==
    { e \in Range(ScanPath(<<RootDirObj>> \o Catalogue)) :
        e.RelPath \in { <<"a">>, <<"b">>, <<"d", "/">>, <<"d", "/", "e">>,
                        <<"f">>, <<"l">>, <<"n">> } }

EntryLists ==
    UNION { [1..n -> FilterEntryPool] : n \in 0..MaxFilterEntries }

\* Each category is either not configured or configured with one value.
FilterChoices ==
    { Some([PathPatterns |-> pp, ExcludePaths |-> ex, IncludeTypes |-> ty,
            NamePatterns |-> nm, MinModTime |-> t[1], MaxModTime |-> t[2],
            MinSize |-> sz[1], MaxSize |-> sz[2]]) :
        pp \in {<<>>, << <<"d", "/", "*", "*">>, <<"?">> >>,
                     << <<"d", "/", "*", "*", "/", "e">> >>},
        ex \in {<<>>, << <<"b">>, <<"d", "/", "*">>, <<"k", "*", "*">> >>},
        ty \in {<<>>, <<TypeFile, TypeDir, TypeHardlink>>},
        nm \in {<<>>, << <<"[">>, <<"*">> >>, << <<"e">>, <<"a">>, <<"b">> >>},
        t \in {<<Nil, Nil>>, <<Some(5), Some(7)>>},
        sz \in {<<Nil, Nil>>, <<Some(1), Some(1)>>, <<Nil, Some(0)>>} }
    \cup {Nil}

InitFilter ==
    /\ fentries \in EntryLists
    /\ ffilter \in FilterChoices
    /\ fresult = <<>>
    /\ fstate = "idle"
    /\ tree = <<RootDirObj>>
    /\ filter = Nil
    /\ opts = [Compress |-> FALSE, Encrypt |-> FALSE, Password |-> <<>>]
    /\ pstate = "idle"
    /\ crafted = <<>>
    /\ entries = <<>>
    /\ pidx = 1
    /\ ws = [file |-> <<>>, ebuf |-> <<>>, zbuf |-> <<>>, period |-> 0, drawn |-> 0]
    /\ wchain = <<>>
    /\ plain = <<>>
    /\ perr = ""
    /\ IdleUnpack

\* One call ApplyFilter(entries, filter).
CallApplyFilter ==
    /\ fstate = "idle"
    /\ fresult' = ApplyFilter(fentries, ffilter)
    /\ fstate' = "done"
    /\ UNCHANGED <<fentries, ffilter, inputVars, packVars, unpackVars>>

NextFilter == CallApplyFilter

SpecFilter == InitFilter /\ [][NextFilter]_vars

(***************************************************************************)
(* Views of the source tree and of the restored tree used by the           *)
(* properties.                                                             *)
(***************************************************************************)
RootIsDir == ModeDir \in tree[1].flags

\* The objects below the scan root.
SrcObjs == {tree[i] : i \in 2..Len(tree)}

TargetKind(type) ==
    CASE type = TypeFile -> "file"
      [] type = TypeDir -> "dir"
      [] type = TypeSymlink -> "symlink"
      [] type = TypeFifo -> "fifo"
      [] type = TypeCharDevice -> "chardev"
      [] type = TypeBlockDevice -> "blockdev"
      [] OTHER -> "socket"

\* Relative path, kind, mode, size and content of a source object.
SrcView(o) ==
    [path |-> o.rel, kind |-> TargetKind(KindOfMode(o.flags)), perm |-> o.perm,
     size |-> o.size, content |-> o.content]

\* The same of an object of the target filesystem.
TargetView(p) ==
    [path |-> Rel(RestoreRoot, p), kind |-> tfs[p].kind, perm |-> tfs[p].perm,
     size |-> Len(tfs[p].content), content |-> tfs[p].content]

\* The paths of the target filesystem other than the target directory.
RestoredPaths == (DOMAIN tfs) \ {RestoreRoot}

UnpackFinished == ustate \in {"ok", "err"}

NoTransform == ~opts.Compress /\ ~opts.Encrypt

\* Some hard link was restored as a copy.
Copied == \E i \in 1..Len(ulog) : ulog[i].outcome = "copied"

HasSocket == \E o \in SrcObjs : ModeSocket \in o.flags

\* C1: with no filter, compression and encryption off, unpack(pack(T)) into
\* an empty target succeeds and the target holds exactly the relative paths
\* of T, each with the kind, mode, size and content it has in T.  Stated
\* for the runs most favourable to the claim: a privileged restore of a
\* tree without sockets in which every os.Link succeeds.
RoundTripIdentity ==
    (/\ UnpackFinished /\ pstate = "ok" /\ filter = Nil /\ NoTransform
     /\ RootIsDir /\ ~HasSocket /\ priv /\ ~Copied)
    => /\ ustate = "ok"
       /\ {TargetView(p) : p \in RestoredPaths} = {SrcView(o) : o \in SrcObjs}

(***************************************************************************)
(* Flush and close order of the transform stages.                          *)
(***************************************************************************)
HeaderLen == Len(writeHeaderWithFlags(FALSE, FALSE))

\* The part of the archive file after the header and the archive nonce.
ArchiveBody ==
    Drop(ws.file, HeaderLen + (IF opts.Encrypt THEN NonceSize ELSE 0))

\* What a reader with the passphrase of the pack decodes from the file.
ReadBack ==
    ChainRead([data |-> ArchiveBody, err |-> ErrEOF],
              BuildReadChain(opts.Compress, opts.Encrypt), KeyOf(opts.Password))

\* C2: when pack returns successfully, with any combination of compression
\* and encryption, everything the codec wrote up to and including the
\* end-of-archive marker has gone through every active stage into the
\* file: no stage holds a buffered tail, and a reader with the same
\* passphrase decodes the same record bytes and reaches the end marker.
PackSealsTail ==
    pstate = "ok"
    => /\ ws.ebuf = <<>>
       /\ ws.zbuf = <<>>
       /\ ReadBack.data = plain

(***************************************************************************)
(* Path escape.                                                            *)
(***************************************************************************)
\* Where a relative path leads from the components of a directory: ".."
\* leaves the current directory, "." and empty components stay.
RECURSIVE ResolveWalk(_, _)
ResolveWalk(stack, comps) ==
    IF comps = <<>> THEN stack
    ELSE LET c == Head(comps) IN
         IF c = <<>> \/ c = Dot THEN ResolveWalk(stack, Tail(comps))
         ELSE IF c = DotDot
              THEN ResolveWalk(IF stack = <<>> THEN <<>>
                               ELSE Take(stack, Len(stack) - 1), Tail(comps))
              ELSE ResolveWalk(Append(stack, c), Tail(comps))

TargetComps == ResolveWalk(<<>>, Split(RestoreRoot))

\* The record path, joined to the target directory, resolves outside it.
Outside(relPath) ==
    ~IsPrefix(TargetComps, ResolveWalk(TargetComps, Split(relPath)))

\* p is the destination of the record path or one of its ancestors.
AccountedBy(p, relPath) ==
    IsPrefix(ResolveWalk(<<>>, Split(p)), ResolveWalk(TargetComps, Split(relPath)))

\* C3: when the path of a record, joined to the target directory, resolves
\* outside the target, unpack returns an error, creates no object for that
\* record or for any record after it, and the only objects present are
\* those restored from earlier records.
PathEscapeStops ==
    \A i \in 1..Len(crafted) :
        Outside(crafted[i].entry.RelPath)
        => /\ Len(ulog) <= i
           /\ UnpackFinished => ustate = "err"
           /\ \A k \in 1..Len(ulog) : k >= i => ulog[k].outcome = "escape"
           /\ \A p \in RestoredPaths :
                 /\ ~Outside(Rel(RestoreRoot, p))
                 /\ \E j \in 1..(i - 1) :
                       /\ ~Outside(crafted[j].entry.RelPath)
                       /\ AccountedBy(p, crafted[j].entry.RelPath)

\* A record that climbs out through a directory is rejected after an
\* earlier record was restored and with a record still to come.
PathEscapeSeen ==
    /\ ustate = "err"
    /\ uerr = "PathEscape"
    /\ Len(ulog) = 2
    /\ Len(crafted) = 3
    /\ ulog[2].path = <<"d", "/", ".", ".", "/", ".", ".", "/", "y">>
    /\ RestoredPaths # {}

(***************************************************************************)
(* Hard links.                                                             *)
(***************************************************************************)
IsRegular(o) == o.flags = {}

SameFile(o1, o2) == o1.dev = o2.dev /\ o1.ino = o2.ino

\* The regular files visited before tree[i] that are the same file.
EarlierSame(i) ==
    {j \in 1..(i - 1) : IsRegular(tree[j]) /\ SameFile(tree[j], tree[i])}

\* The scan of a directory without a filter gives one entry per object.
PlainDirScan == pstate # "start" /\ filter = Nil /\ RootIsDir

\* C4: for two source paths with the same (device, inode) and link count
\* 2, the archive holds exactly one RegularFile record and one HardLink
\* record for them, and after unpack both destination paths exist and hold
\* the same content.
HardLinkPairRestored ==
    (PlainDirScan /\ pstate = "ok" /\ NoTransform /\ ustate = "ok")
    => \A i, j \in 1..Len(tree) :
          (/\ i < j
           /\ IsRegular(tree[i]) /\ IsRegular(tree[j])
           /\ SameFile(tree[i], tree[j])
           /\ tree[i].nlink = 2 /\ tree[j].nlink = 2)
          => /\ entries[i].Type = TypeFile
             /\ entries[j].Type = TypeHardlink
             /\ Join(RestoreRoot, tree[i].rel) \in DOMAIN tfs
             /\ Join(RestoreRoot, tree[j].rel) \in DOMAIN tfs
             /\ tfs[Join(RestoreRoot, tree[i].rel)].content
                = tfs[Join(RestoreRoot, tree[j].rel)].content

\* C8: within one scan an entry is emitted as HardLink exactly when an
\* earlier-visited regular file has the same (device, inode) pair, its
\* linkName is the relative path of the first such file, files on
\* different devices are never linked, and directories and the scan root
\* are never HardLink.
HardLinkIffSameDeviceInode ==
    PlainDirScan
    => \A i \in 1..Len(entries) :
          /\ entries[i].Type = TypeHardlink
             <=> (IsRegular(tree[i]) /\ EarlierSame(i) # {})
          /\ entries[i].Type = TypeHardlink
             => \E j \in EarlierSame(i) :
                   /\ \A k \in EarlierSame(i) : j <= k
                   /\ entries[i].LinkName = tree[j].rel

(***************************************************************************)
(* Passphrases.                                                            *)
(***************************************************************************)
\* C5: unpacking an encrypted archive with a passphrase other than the one
\* it was packed with returns an error and restores nothing under the
\* target directory.
WrongPassphraseFails ==
    (/\ pstate \in {"ok", "err"} /\ opts.Encrypt /\ opts.Password # <<>>
     /\ ustate # "idle" /\ uopts.Password # opts.Password)
    => /\ ustate # "ok"
       /\ RestoredPaths = {}
       /\ ulog = <<>>

\* An archive with records, packed under one passphrase, was opened with
\* another and the first chunk failed authentication.
WrongPassphraseSeen ==
    /\ pstate = "ok"
    /\ opts.Encrypt
    /\ opts.Password = <<"p">>
    /\ uopts.Password = <<"q">>
    /\ Len(entries) > 1
    /\ ustate = "err"
    /\ uerr = "DecryptFailed"
    /\ RestoreRoot \in DOMAIN tfs

\* C6: a passphrase is required exactly when encryption is active: pack
\* fails for a missing passphrase exactly when Encrypt is set and the
\* passphrase is empty; unpack fails for a missing passphrase exactly when
\* the archive was written with encryption and no passphrase is given, and
\* then before the target directory is created.
PassphraseRequiredIffEncrypt ==
    /\ pstate \in {"ok", "err"}
       => (perr = "NoPassphrase" <=> (opts.Encrypt /\ opts.Password = <<>>))
    /\ pstate = "writing" => ~(opts.Encrypt /\ opts.Password = <<>>)
    /\ ustate # "idle"
       => /\ uerr = "NoPassphrase" <=> (opts.Encrypt /\ uopts.Password = <<>>)
          /\ uerr = "NoPassphrase" => (ustate = "err" /\ tfs = <<>>)

\* An encrypted archive with records was opened without a passphrase.
MissingPassphraseSeen ==
    /\ pstate = "ok"
    /\ opts.Encrypt
    /\ Len(entries) > 1
    /\ uopts.Password = <<>>
    /\ ustate = "err"
    /\ uerr = "NoPassphrase"
    /\ tfs = <<>>

(***************************************************************************)
(* Transform chain.                                                        *)
(***************************************************************************)
StageInverse(stage) == IF stage = "flate" THEN "inflate" ELSE "decrypt"

\* The inverse stages in reverse order.
InverseChain(chain) ==
    [i \in 1..Len(chain) |-> StageInverse(chain[Len(chain) + 1 - i])]

FlagsWritten == ws.file[Len(magicNumber) + 2].v

NonceWritten == Len(ws.file) > HeaderLen /\ ws.file[HeaderLen + 1].k = "nonce"

PackPastSetup == pstate = "writing" \/ pstate = "ok" \/ perr = "WriteEntry"

\* C7: the writer records the active stages in the header flags (bit 0
\* compression, bit 1 encryption), writes an archive nonce exactly when
\* encryption is active, and pushes record bytes through compression and
\* then encryption; the reader applies decryption and then decompression,
\* the reverse-order inverse of the write path, and what it decodes with
\* the right passphrase is what the codec wrote.
TransformChainsInverse ==
    /\ pstate \in {"writing", "ok", "err"}
       => FlagsWritten = (IF opts.Compress THEN 1 ELSE 0)
                         + (IF opts.Encrypt THEN 2 ELSE 0)
    /\ PackPastSetup
       => /\ NonceWritten <=> opts.Encrypt
          /\ wchain = (IF opts.Compress THEN <<"flate">> ELSE <<>>)
                      \o (IF opts.Encrypt THEN <<"encrypt">> ELSE <<>>)
    /\ (PackPastSetup /\ RestoreRoot \in DOMAIN tfs)
       => /\ rchain = InverseChain(wchain)
          /\ uopts.Password = opts.Password => IsPrefix(ustream.data, plain)

\* A compressed and encrypted archive is being read and record bytes were
\* decoded.
BothStagesRead ==
    /\ pstate = "ok"
    /\ opts.Compress /\ opts.Encrypt
    /\ uopts.Password = opts.Password
    /\ rchain = <<"decrypt", "inflate">>
    /\ ustate = "reading"
    /\ Len(ulog) > 0

(***************************************************************************)
(* Single-file root.                                                       *)
(***************************************************************************)
\* C9: when the scan root is a single regular file, of any size, ScanPath
\* returns exactly one entry and pack succeeds and writes one RegularFile
\* record with the content of the file.
SingleFileRootPacks ==
    (/\ ~RootIsDir /\ filter = Nil /\ pstate \in {"ok", "err"}
     /\ ~PackNeedsPassphrase(opts))
    => /\ Len(entries) = 1
       /\ entries[1].Type = TypeFile
       /\ pstate = "ok"
       /\ plain = RecordHead(entryTypeFile, entries[1])
                  \o <<Num(Len(tree[1].content))>>
                  \o [i \in 1..Len(tree[1].content) |-> Num(tree[1].content[i])]
                  \o writeEndMarker

(***************************************************************************)
(* Filter.                                                                 *)
(***************************************************************************)
\* The entry satisfies every configured category of the filter.
Satisfies(f, e) ==
    /\ f.PathPatterns # <<>>
       => \E p \in Range(f.PathPatterns) : PathPatternMatches(p, e.RelPath)
    /\ \A p \in Range(f.ExcludePaths) : ~PathPatternMatches(p, e.RelPath)
    /\ f.IncludeTypes # <<>> => e.Type \in Range(f.IncludeTypes)
    /\ f.NamePatterns # <<>>
       => \E p \in Range(f.NamePatterns) : Match(p, Base(e.RelPath))
    /\ f.MinModTime # Nil => e.ModTime >= Val(f.MinModTime)
    /\ f.MaxModTime # Nil => e.ModTime <= Val(f.MaxModTime)
    /\ e.Type = TypeFile
       => /\ f.MinSize # Nil => e.Size >= Val(f.MinSize)
          /\ f.MaxSize # Nil => e.Size <= Val(f.MaxSize)

\* C10: ApplyFilter returns exactly the input entries that satisfy all
\* configured filter categories, in their input order; a nil filter
\* returns the input unchanged.
ApplyFilterSelects ==
    fstate = "done"
    => IF ffilter = Nil THEN fresult = fentries
       ELSE LET Keep(e) == Satisfies(Val(ffilter), e)
            IN  fresult = SelectSeq(fentries, Keep)

\* A filter with every category configured kept one of two entries, and
\* the one it dropped is a non-file entry outside the size range.
ApplyFilterSeen ==
    /\ fstate = "done"
    /\ ffilter # Nil
    /\ Len(fentries) = 2
    /\ Len(fresult) = 1
    /\ Val(ffilter).MinSize # Nil
    /\ Val(ffilter).IncludeTypes # <<>>
    /\ Val(ffilter).ExcludePaths # <<>>
    /\ fresult[1] = fentries[2]

\* The globs, kinds and bounds a caller may add to a filter.
MoreGlobs == { <<"a">>, <<"d", "/", "*", "*">> }

MoreKinds == { TypeFile, TypeSymlink }

MoreTimes == { Some(6) }

MoreSizes == { Some(1) }

\* f with one predicate added to a category that f has configured already:
\* one more include glob, allowed kind or name glob.
Widened(f) ==
    { [f EXCEPT !.PathPatterns = @ \o <<g>>] :
        g \in IF f.PathPatterns = <<>> THEN {} ELSE MoreGlobs }
    \cup { [f EXCEPT !.IncludeTypes = @ \o <<k>>] :
             k \in IF f.IncludeTypes = <<>> THEN {} ELSE MoreKinds }
    \cup { [f EXCEPT !.NamePatterns = @ \o <<g>>] :
             g \in IF f.NamePatterns = <<>> THEN {} ELSE MoreGlobs }

\* f with one predicate added that is an exclude glob, or that configures
\* a category f leaves unconfigured.
Narrowed(f) ==
    { [f EXCEPT !.ExcludePaths = @ \o <<g>>] : g \in MoreGlobs }
    \cup { [f EXCEPT !.PathPatterns = <<g>>] :
             g \in IF f.PathPatterns = <<>> THEN MoreGlobs ELSE {} }
    \cup { [f EXCEPT !.IncludeTypes = <<k>>] :
             k \in IF f.IncludeTypes = <<>> THEN MoreKinds ELSE {} }
    \cup { [f EXCEPT !.NamePatterns = <<g>>] :
             g \in IF f.NamePatterns = <<>> THEN MoreGlobs ELSE {} }
    \cup { [f EXCEPT !.MinModTime = b] :
             b \in IF f.MinModTime = Nil THEN MoreTimes ELSE {} }
    \cup { [f EXCEPT !.MaxModTime = b] :
             b \in IF f.MaxModTime = Nil THEN MoreTimes ELSE {} }
    \cup { [f EXCEPT !.MinSize = b] :
             b \in IF f.MinSize = Nil THEN MoreSizes ELSE {} }
    \cup { [f EXCEPT !.MaxSize = b] :
             b \in IF f.MaxSize = Nil THEN MoreSizes ELSE {} }

\* Every entry ApplyFilter returns for g is in the result of the call made.
WithinResult(g) ==
    Range(ApplyFilter(fentries, Some(g))) \subseteq Range(fresult)

\* C11: filter monotonicity.  For the filter F of the call and every G that
\* is F with a predicate added (an include glob, exclude glob, allowed
\* kind, name glob, or a time or size bound), every entry ApplyFilter
\* returns for G is returned for F.
FilterMonotone ==
    (fstate = "done" /\ ffilter # Nil)
    => \A g \in Widened(Val(ffilter)) \cup Narrowed(Val(ffilter)) :
          WithinResult(g)

\* C11 as amended: the same for every G that is F with an exclude glob
\* added or with a category configured that F leaves unconfigured.
FilterMonotoneNarrowed ==
    (fstate = "done" /\ ffilter # Nil)
    => \A g \in Narrowed(Val(ffilter)) : WithinResult(g)

\* A call returned two entries and a filter with one category more
\* returns one of them only.
FilterNarrowedSeen ==
    /\ fstate = "done"
    /\ ffilter # Nil
    /\ Len(fresult) = 2
    /\ \E g \in Narrowed(Val(ffilter)) :
          Len(ApplyFilter(fentries, Some(g))) = 1

\* The filter of the call without its size bounds.
WithoutSize(f) == [f EXCEPT !.MinSize = Nil, !.MaxSize = Nil]

\* The entry passes every category of the call's filter other than size.
PassesOtherwise(e) == FilterMatch(WithoutSize(Val(ffilter)), e)

Retained(e) == e \in Range(fresult)

\* C12: size bounds are inclusive and apply to regular files only.  Among
\* the entries that pass the other categories, a regular file whose size
\* equals minSize or maxSize is retained, one of size minSize-1 or
\* maxSize+1 is rejected, and an entry of another kind is retained whatever
\* its size.
SizeBoundsInclusive ==
    (fstate = "done" /\ ffilter # Nil)
    => \A e \in Range(fentries) :
          PassesOtherwise(e)
          => /\ (/\ e.Type = TypeFile
                 /\ \/ Some(e.Size) = Val(ffilter).MinSize
                    \/ Some(e.Size) = Val(ffilter).MaxSize
                 /\ Val(ffilter).MinSize # Nil => e.Size >= Val(ffilter).MinSize[1]
                 /\ Val(ffilter).MaxSize # Nil => e.Size <= Val(ffilter).MaxSize[1])
                => Retained(e)
             /\ (/\ e.Type = TypeFile
                 /\ \/ Some(e.Size + 1) = Val(ffilter).MinSize
                    \/ Some(e.Size - 1) = Val(ffilter).MaxSize)
                => ~Retained(e)
             /\ e.Type # TypeFile => Retained(e)

\* A call with both bounds at 1 kept a file of size 1 and dropped a file
\* of size 0 that passes the other categories.
SizeBoundsSeen ==
    /\ fstate = "done"
    /\ ffilter # Nil
    /\ Val(ffilter).MinSize = Some(1)
    /\ Val(ffilter).MaxSize = Some(1)
    /\ \E e \in Range(fresult) : e.Type = TypeFile /\ e.Size = 1
    /\ \E e \in Range(fentries) :
          e.Type = TypeFile /\ e.Size = 0 /\ PassesOtherwise(e) /\ ~Retained(e)

\* The text of a pattern before its first "**".
StarPrefix(pattern) ==
    Take(pattern, CHOOSE i \in 0..(Len(pattern) - 2) :
                     /\ SubSeq(pattern, i + 1, i + 2) = StarStar
                     /\ \A j \in 0..(i - 1) : SubSeq(pattern, j + 1, j + 2) # StarStar)

\* Some pattern of the list contains "**" and the path starts with the
\* text before its first "**".
StartsAsSome(patterns, relPath) ==
    \E p \in Range(patterns) :
        Contains(p, StarStar) /\ HasPrefix(relPath, StarPrefix(p))

\* The call's filter without its include patterns.
WithoutInclude(f) == [f EXCEPT !.PathPatterns = <<>>]

\* C13: an include or exclude pattern that contains "**" matches every
\* relative path that starts with the text of the pattern before its first
\* "**", whatever follows the "**": such an entry passes the include
\* category, and is rejected when the pattern is an exclude pattern.
StarStarMatchesPrefix ==
    (fstate = "done" /\ ffilter # Nil)
    => \A e \in Range(fentries) :
          /\ (/\ StartsAsSome(Val(ffilter).PathPatterns, e.RelPath)
              /\ FilterMatch(WithoutInclude(Val(ffilter)), e))
             => Retained(e)
          /\ StartsAsSome(Val(ffilter).ExcludePaths, e.RelPath) => ~Retained(e)

(***************************************************************************)
(* Sockets.                                                                *)
(***************************************************************************)
NotSocket(e) == e.Type # TypeSocket

\* The entries pack has handled so far.
Handled == SubSeq(entries, 1, pidx - 1)

\* The records of a list of entries, one after the other.
RecordsOf(es) == Flatten([i \in 1..Len(es) |-> writeEntry(es[i], tree).out])

SocketPaths == { o.rel : o \in {s \in SrcObjs : ModeSocket \in s.flags} }

\* C14: a Unix socket of the source tree never produces a record.  The
\* stream pack has serialized is the records of the handled entries that
\* are no sockets, one after the other (followed by the end marker once
\* pack has succeeded), and no record names the socket's path and the path
\* does not exist in the target during and after restore.
SocketOmitted ==
    /\ (RootIsDir /\ pstate \in {"writing", "ok"})
       => plain = RecordsOf(SelectSeq(Handled, NotSocket))
                  \o (IF pstate = "ok" THEN writeEndMarker ELSE <<>>)
    /\ \A p \in SocketPaths :
          /\ Join(RestoreRoot, p) \notin DOMAIN tfs
          /\ \A i \in 1..Len(ulog) : ulog[i].path # p

\* A tree with a socket between two other objects was packed and restored:
\* the socket's neighbours are in the target.
SocketOmittedSeen ==
    /\ pstate = "ok"
    /\ ustate = "ok"
    /\ SocketPaths # {}
    /\ \E i \in 2..(Len(entries) - 1) : entries[i].Type = TypeSocket
    /\ Len(ulog) = Len(entries) - 1
    /\ Cardinality(RestoredPaths) = Len(entries) - 2

(***************************************************************************)
(* Chunk nonces.                                                           *)
(***************************************************************************)
IsNonceItem(it) == it.k = "nonce"

\* The nonces written before the chunks of the archive file, in file order.
ChunkNonces == SelectSeq(ArchiveBody, IsNonceItem)

\* Every item of the body that is no nonce is ciphertext sealed under the
\* nonce written before its chunk.
SealedUnderOwn(body) ==
    \A i \in 1..Len(body) :
        ~IsNonceItem(body[i])
        => /\ body[i].k = "ct"
           /\ i > 1
           /\ body[i].nonce = IF IsNonceItem(body[i - 1]) THEN body[i - 1].v
                              ELSE body[i - 1].nonce

\* The j-th nonce is the value of draw j+1 of the random source.
OwnDraws(nonces) ==
    /\ ws.drawn = Len(nonces) + 1
    /\ \A j \in 1..Len(nonces) : nonces[j].v = Draw(ws.period, j + 1)

Distinct(nonces) ==
    \A i, j \in 1..Len(nonces) : i # j => nonces[i] # nonces[j]

\* Pack has set up the encryption stage.
Encrypting ==
    /\ opts.Encrypt
    /\ pstate \in {"writing", "ok", "err"}
    /\ ~PackNeedsPassphrase(opts)

DefinedTags == entryTypeEnd..entryTypeBlockDev

\* C16: for every record whose tag is none of the defined values 0..7,
\* whatever its path, unpack returns an error and handles no later record.
UnknownTagStops ==
    \A i \in 1..Len(ulog) :
        ulog[i].tag \notin DefinedTags => i = Len(ulog) /\ ustate = "err"

PackFailureLeavesFile ==
    [][/\ IsPrefix(ws.file, ws'.file)
       /\ (pstate # "err" /\ pstate' = "err")
          => /\ perr' # ""
             /\ ws'.file # <<>>
             /\ pidx' = pidx
             /\ pstate = "writing" => IsPrefix(plain, plain')
       /\ pstate = "err"
          => /\ plain' = plain
             /\ ws' = ws
             /\ pstate' = "err"
             /\ perr' = perr]_vars

\* Pack with compression failed in writeEntry after it wrote part of a
\* record, and the file holds more than the header.
PackFailureSeen ==
    /\ pstate = "err"
    /\ perr = "WriteEntry"
    /\ opts.Compress
    /\ plain # <<>>
    /\ Len(ws.file) > HeaderLen

(***************************************************************************)
(* Ownership and timestamps.                                               *)
(***************************************************************************)
\* The record the step has handled, as logged.
LastLogged == ulog'[Len(ulog')]

\* The step restored a file or directory record whose path stays inside
\* the target, in a process without the privilege to chown.
RestoresUnprivileged ==
    /\ ustate = "reading"
    /\ Len(ulog') = Len(ulog) + 1
    /\ ~priv
    /\ LastLogged.tag \in {entryTypeFile, entryTypeDir}
    /\ LastLogged.outcome \notin {"root", "escape"}

\* C19: a failure to set ownership or timestamps on a restored entry never
\* makes unpack return an error and never prevents the restore of later
\* records.  Every step that restores a file or directory whose stored
\* owner the process cannot set leaves the object in the target, owned by
\* the process, and unpack goes on with the next record.
OwnershipBestEffort ==
    [][RestoresUnprivileged
       => /\ ustate' = "reading"
          /\ uerr' = ""
          /\ LastLogged.outcome = "restored"
          /\ Join(RestoreRoot, LastLogged.path) \in DOMAIN tfs'
          /\ tfs'[Join(RestoreRoot, LastLogged.path)].uid = ProcUid
          /\ \A i \in 1..Len(crafted) : crafted[i].entry.UID # ProcUid]_vars

\* An unprivileged unpack restored a file and a directory, both left with
\* the owner of the process, and ended successfully.
OwnershipFailedSeen ==
    /\ ustate = "ok"
    /\ ~priv
    /\ Len(ulog) = 2
    /\ {ulog[1].tag, ulog[2].tag} = {entryTypeFile, entryTypeDir}
    /\ \A i \in 1..2 :
          /\ ulog[i].outcome = "restored"
          /\ tfs[Join(RestoreRoot, ulog[i].path)].uid = ProcUid
          /\ crafted[i].entry.UID # ProcUid

(***************************************************************************)
(* Device numbers.                                                         *)
(***************************************************************************)
DeviceObjs == { o \in SrcObjs : ModeDevice \in o.flags }

DeviceTags == {entryTypeCharDev, entryTypeBlockDev}

\* The minor number of a device number in the kernel's encoding: bits 0-7
\* and bits 20-31.
KernelMinor(rdev) == (rdev % 256) + 256 * (rdev \div 1048576)

\* C20: the device number passed to node creation on restore equals the
\* source's, devices with a minor number above 255 included.  mkdev of the
\* pair the scanner stored in a device's entry is the device's number, and
\* every device node the restore created carries the number of the source
\* object of its path.
DeviceNumbersRestored ==
    /\ \A i \in 1..Len(entries) :
          entries[i].Type \in {TypeCharDevice, TypeBlockDevice}
          => \E o \in DeviceObjs :
                /\ o.rel = entries[i].RelPath
                /\ mkdev(entries[i].DevMajor, entries[i].DevMinor) = o.rdev
    /\ \A i \in 1..Len(ulog) :
          (ulog[i].tag \in DeviceTags /\ ulog[i].outcome = "restored")
          => \E o \in DeviceObjs :
                /\ o.rel = ulog[i].path
                /\ Join(RestoreRoot, o.rel) \in DOMAIN tfs
                /\ tfs[Join(RestoreRoot, o.rel)].rdev = o.rdev

\* A block device with a minor number above 255 and a character device
\* were packed and restored with their device numbers.
DeviceRestoredSeen ==
    /\ ustate = "ok"
    /\ \E i, j \in 1..Len(ulog) :
          /\ ulog[i].tag = entryTypeBlockDev
          /\ ulog[j].tag = entryTypeCharDev
          /\ ulog[i].outcome = "restored"
          /\ ulog[j].outcome = "restored"
          /\ KernelMinor(tfs[Join(RestoreRoot, ulog[i].path)].rdev) > 255
          /\ tfs[Join(RestoreRoot, ulog[j].path)].rdev = 259

(***************************************************************************)
(* Hard links in a filtered archive.                                       *)
(***************************************************************************)
\* C21: in every archive written by pack, for any filter, each HardLink
\* record's linkName is the path of a RegularFile record that appears
\* earlier in the same archive, and the restore into an empty target never
\* takes the branch that skips a hard link whose target does not exist.
HardLinksFollowTheirFile ==
    /\ \A i \in 1..Len(entries) :
          entries[i].Type = TypeHardlink
          => \E j \in 1..(i - 1) :
                /\ entries[j].Type = TypeFile
                /\ entries[j].RelPath = entries[i].LinkName
    /\ \A i \in 1..Len(ulog) : ulog[i].outcome # "deferred"

(***************************************************************************)
(* Header reading.                                                         *)
(***************************************************************************)
\* The first four bytes are the magic token, the version is 1 or 2 and the
\* sixteen bytes of the header are there.
HeaderAcceptable ==
    /\ Len(ws.file) >= HeaderLen
    /\ SubSeq(ws.file, 1, 4) = Chars(magicNumber)
    /\ ws.file[5] \in {Num(1), Num(2)}

\* The flags a header declares: those of the flags byte for version 2,
\* none for version 1.
DeclaresCompress == ws.file[5] = Num(2) /\ ws.file[6].v % 2 = 1

DeclaresEncrypt == ws.file[5] = Num(2) /\ (ws.file[6].v \div 2) % 2 = 1

HeaderErrors == {"HeaderRead", "BadMagic", "BadVersion"}

\* C22: header reading accepts a stream exactly when its first 4 bytes are
\* the magic token and its version is 1 or 2.  For version 2 compression
\* is flag bit 0 and encryption flag bit 1, for version 1 both are off,
\* and in both cases the stream goes on after sixteen bytes.  Any other
\* magic or version, or a shorter header, is an error and nothing is
\* restored.
HeaderReading ==
    ustate # "idle"
    => /\ ~HeaderAcceptable
          => /\ ustate = "err"
             /\ uerr \in HeaderErrors
             /\ tfs = <<>>
             /\ ulog = <<>>
       /\ HeaderAcceptable
          => /\ uerr \notin HeaderErrors
             /\ uerr = "NoPassphrase" <=> (DeclaresEncrypt /\ uopts.Password = <<>>)
             /\ uerr = "ReadNonce" => DeclaresEncrypt
             /\ uerr \notin {"NoPassphrase", "ReadNonce"}
                => /\ rchain = BuildReadChain(DeclaresCompress, DeclaresEncrypt)
                   /\ rchain = <<>>
                      => /\ ustream.data = Drop(ws.file, HeaderLen)
                         /\ ustate = "ok" => Len(ulog) = Len(crafted)

\* A version 1 header whose byte after the version has both flag bits set
\* was read as an archive without transforms, and the record behind its
\* sixteen bytes was restored.
HeaderReadingSeen ==
    /\ HeaderAcceptable
    /\ ws.file[5] = Num(1)
    /\ ws.file[6] = Num(3)
    /\ rchain = <<>>
    /\ ustate = "ok"
    /\ Len(ulog) = 1
    /\ ulog[1].outcome = "restored"

(***************************************************************************)
(* Ownership of root-owned records.                                        *)
(***************************************************************************)
\* The step restored a file or directory record in a process that has the
\* privilege to chown.
RestoresPrivileged ==
    /\ ustate = "reading"
    /\ Len(ulog') = Len(ulog) + 1
    /\ priv
    /\ LastLogged.tag \in {entryTypeFile, entryTypeDir}
    /\ LastLogged.outcome = "restored"

\* The entry of the record the step has handled.
LastEntry == crafted[Len(ulog')].entry

\* The object the step restored: the one the destination leads to.
RestoredAt == FollowLink(tfs', Join(RestoreRoot, LastLogged.path))

\* C23: for every Directory and RegularFile record it restores, unpack
\* sets the owner of the restored object to the record's stored uid and
\* gid, whatever their values (uid 0 and gid 0 included), and sets its
\* timestamps.  In a process whose chown succeeds the object carries the
\* record's owner and modification time after the step.
OwnerSetWhateverValue ==
    [][RestoresPrivileged
       => /\ tfs'[RestoredAt].uid = LastEntry.UID
          /\ tfs'[RestoredAt].gid = LastEntry.GID
          /\ tfs'[RestoredAt].mtime = LastEntry.ModTime]_vars

(***************************************************************************)
(* Chunk framing of the encrypted stream.                                  *)
(***************************************************************************)
\* The last item of a sealed chunk: the end of its tag.
EndsChunk(it) == it.k = "ct" /\ it.i = it.len + Overhead

\* Item k of the body continues as the writer's framing says: a nonce is
\* followed by the first item of a chunk, an item inside a chunk by the
\* next item of the same chunk, and the end of a chunk by the end of the
\* file or, when the chunk is full, by the nonce of the next chunk.
FramedAt(body, k) ==
    IF IsNonceItem(body[k])
    THEN k < Len(body) /\ body[k + 1].k = "ct" /\ body[k + 1].i = 1
    ELSE /\ body[k].k = "ct"
         /\ body[k].len \in 1..blockSize
         /\ IF EndsChunk(body[k])
            THEN k = Len(body)
                 \/ (IsNonceItem(body[k + 1]) /\ body[k].len = blockSize)
            ELSE /\ k < Len(body)
                 /\ body[k + 1].k = "ct"
                 /\ body[k + 1].i = body[k].i + 1
                 /\ body[k + 1].len = body[k].len

IsSealedByte(it) == it.k = "ct" /\ it.i <= it.len

\* The plaintext the chunks of the body seal, in file order.
PlainOf(sealed) == [k \in 1..Len(sealed) |-> sealed[k].p]

SealedPlain(body) == PlainOf(SelectSeq(body, IsSealedByte))

\* C24: in the encrypted byte stream of an archive pack writes, each chunk
\* is a nonce followed by ciphertext and tag, every chunk other than the
\* last one in the file seals exactly blockSize plaintext bytes and the
\* last between 1 and blockSize, so the reader, which consumes a nonce and
\* up to blockSize plus tag bytes per chunk, splits the stream at the
\* writer's chunk boundaries: it opens every chunk and delivers the sealed
\* plaintext.
ChunkFraming ==
    Encrypting
    => /\ ArchiveBody # <<>> => IsNonceItem(ArchiveBody[1])
       /\ \A k \in 1..Len(ArchiveBody) : FramedAt(ArchiveBody, k)
       /\ decryptReaderRead(ArchiveBody, KeyOf(opts.Password))
          = [data |-> SealedPlain(ArchiveBody), err |-> ErrEOF]

\* A pack with encryption finished with full chunks and a shorter last
\* chunk in the file.
ChunkFramingSeen ==
    /\ Encrypting
    /\ pstate = "ok"
    /\ Len(ChunkNonces) >= 3
    /\ ArchiveBody[2].len = blockSize
    /\ ArchiveBody[Len(ArchiveBody)].len < blockSize

(***************************************************************************)
(* Declared lengths.                                                       *)
(***************************************************************************)
\* The archive is one the codec writes for its records: every declared
\* length is the length of what follows it, and the end marker is there.
WellFormedStream == plain = CraftStream(crafted, TRUE)

\* C25: for every record whose declared path length, link length or
\* RegularFile size does not agree with the bytes remaining in the stream
\* (larger than what remains, or a negative size), unpack returns an
\* error and does not report success.
DeclaredLengthsChecked ==
    (pstate = "crafted" /\ ~WellFormedStream)
    => /\ ustate # "ok"
       /\ ustate = "err" => uerr # ""

(***************************************************************************)
(* Position in the record stream.                                          *)
(***************************************************************************)
\* The bytes of the first n records of the archive.
RecordBytes(n) == CraftStream(SubSeq(crafted, 1, n), FALSE)

\* C26: after unpack has finished handling a record, whether the record
\* was restored, skipped because its path is "." or deferred as a hard
\* link, the read position is the first byte after that whole record (the
\* content bytes of a RegularFile record included), so the next byte read
\* is the tag of the next record.
StreamPositionKept ==
    (pstate = "crafted" /\ ustate = "reading")
    => /\ Len(ulog) <= Len(crafted)
       /\ upos = Len(RecordBytes(Len(ulog)))

(***************************************************************************)
(* The link source of a hard link.                                         *)
(***************************************************************************)
\* C27: for every HardLink record the link source unpack resolves from
\* linkName lies inside the target directory.  A record whose linkName
\* resolves outside the target is rejected: it is the last record handled,
\* unpack returns an error, and nothing it names is linked or copied into
\* the target.
LinkSourceInside ==
    \A i \in 1..Len(ulog) :
        (ulog[i].tag = entryTypeHardlink /\ Outside(ulog[i].linkName))
        => /\ ulog[i].outcome \notin {"linked", "copied"}
           /\ i = Len(ulog)
           /\ ustate = "err"
           /\ Join(RestoreRoot, ulog[i].path) \notin DOMAIN tfs

(***************************************************************************)
(* Objects outside the target.                                             *)
(***************************************************************************)
OutsidePaths(fs) == { p \in DOMAIN fs : Outside(Rel(RestoreRoot, p)) }

\* C28: for any sequence of records in one archive, unpack never creates,
\* truncates, writes or changes the owner of a filesystem object outside
\* the target directory, also when an earlier record created a symlink
\* inside the target that points outside it: the objects outside the
\* target are those that were there before unpack, unchanged.
OutsideUntouched ==
    /\ OutsidePaths(tfs) = OutsidePaths(HostFs)
    /\ \A p \in OutsidePaths(HostFs) :
          /\ tfs[p].content = HostFs[p].content
          /\ tfs[p].uid = HostFs[p].uid
          /\ tfs[p].gid = HostFs[p].gid
          /\ tfs[p].kind = HostFs[p].kind

(***************************************************************************)
(* What the path-escape check rejects.                                     *)
(***************************************************************************)
\* C30: the path-escape check rejects a record only if its destination
\* lies outside the target directory: every record whose joined
\* destination is inside the target is accepted, one whose first path
\* component merely begins with two dots included.
EscapeCheckExact ==
    \A i \in 1..Len(ulog) :
        ulog[i].outcome = "escape" => Outside(ulog[i].path)

(***************************************************************************)
(* The order of the encrypted chunks.                                      *)
(***************************************************************************)
\* The file is not the one the writer produced for the records.
ChunksRearranged == ws.file # CraftArchive(plain, opts).file

\* C29: decryption accepts only the chunk sequence the writer produced.
\* When whole encrypted chunks of an archive are reordered, duplicated or
\* removed from the middle, the decrypting reader reports an error and
\* unpack does not succeed on the altered stream.
ChunkOrderAuthentic ==
    (ChunksRearranged /\ ustate # "idle" /\ uopts.Password = opts.Password)
    => /\ ustream.err = "DecryptFailed"
       /\ ustate # "ok"

====
